---- MODULE Spec2Model ----
(***************************************************************************)
(* A model of the fuel-tx transaction core: the fee engine                 *)
(* (TransactionFee::from_values), the checked-transaction pipeline         *)
(* (CheckedTransaction::check), structural validation and the byte-exact   *)
(* wire codec of Script / Create transactions.                             *)
(*                                                                         *)
(* TLC's integers are 32 bits wide, so the 64-bit Word of the program is   *)
(* modelled with WordBits bits and the 53-bit significand of f64 with      *)
(* MantBits bits; every checked_* operation keeps its overflow test at     *)
(* that width.                                                             *)
(***************************************************************************)
EXTENDS Integers, Sequences, FiniteSets, TLC

VARIABLES
    fee_in,     \* the arguments of TransactionFee::from_values
    fee_out,    \* its result, or Idle before the call
    tx,         \* the Transaction being assembled
    byte_price, \* the value of the transaction's byte_price() accessor
    check_args, \* the (block_height, params) last passed to check
    checked,    \* the result of CheckedTransaction::check, or Idle
    read_len,    \* the length of the buffer handed to io::Read for Transaction
    wire,       \* the result of io::Read for Transaction, or Idle
    decoded,    \* the result of Transaction::try_from_bytes, or Idle
    validated,  \* the last validation call and its result, or Idle
    canon_in,   \* the value or the bytes handed to the canonical codec
    canon_out,  \* what the canonical codec returned, or Idle
    text_in,    \* the UtxoId handed to the hex formatter
    text_out,   \* the formatted text and what FromStr made of it, or Idle
    dup_in,     \* the sequence handed to next_duplicate
    dup_out,    \* its result, or Idle
    built,      \* the last call of a builder method and its arguments, or Idle
    alloc_fails \* whether the allocator refuses large requests in this run

vars == <<fee_in, fee_out, tx, byte_price, check_args, checked, read_len, wire, decoded, validated, canon_in, canon_out, text_in, text_out, dup_in, dup_out, built, alloc_fails>>

\* ------------------------------------------------------------------ widths

WordBits == 12
MantBits == 10

WORD_MAX == 2^WordBits - 1

Idle == [idle |-> TRUE]

None == [some |-> FALSE]
Some(v) == [some |-> TRUE, v |-> v]

Ok(v) == [ok |-> TRUE, val |-> v]
Err(e) == [ok |-> FALSE, err |-> e]

\* ------------------------------------------------- u64 checked arithmetic

wrapping_mul(a, b) == Some((a * b) % (WORD_MAX + 1))

checked_mul(a, b) ==
    IF a = 0 \/ b <= WORD_MAX \div a THEN Some(a * b) ELSE None

checked_add(a, b) ==
    IF a <= WORD_MAX - b THEN Some(a + b) ELSE None

checked_sub(a, b) ==
    IF b <= a THEN Some(a - b) ELSE None

\* Option::and_then with a binary checked operation
and_then_mul(o, b) == IF o.some THEN checked_mul(o.v, b) ELSE None
and_then_add(o, b) == IF o.some THEN checked_add(o.v, b) ELSE None

div_floor(a, f) == a \div f

\* num_integer::div_ceil on u128 operands
div_ceil(a, f) ==
    LET q == a \div f
        r == a % f
    IN  IF r = 0 THEN q ELSE q + 1

\* u128 -> u64 try_into().ok()
try_into_word(v) == IF v <= WORD_MAX THEN Some(v) ELSE None

and_then_div_ceil(o, f) ==
    IF o.some THEN try_into_word(div_ceil(o.v, f)) ELSE None

\* --------------------------------------------------------- TransactionFee

TransactionFee_new(bytes, total) == [bytes |-> bytes, total |-> total]

from_values(gas_per_byte, factor, metered_bytes, gas_limit, gas_price) ==
    LET bytes == checked_mul(gas_per_byte, metered_bytes)
        total == and_then_div_ceil(
                     and_then_mul(and_then_add(bytes, gas_limit), gas_price),
                     factor)
        bfee  == and_then_div_ceil(and_then_mul(bytes, gas_price), factor)
    IN  IF bfee.some /\ total.some
          THEN Ok(TransactionFee_new(bfee.v, total.v))
          ELSE Err("ArithmeticOverflow")

\* ------------------------------------------------------- byte-level types

WORD_SIZE == 8
Bytes32_LEN == 32
Signature_LEN == 64

Min(a, b) == IF a <= b THEN a ELSE b

RECURSIVE SumSeq(_)
SumSeq(s) == IF s = <<>> THEN 0 ELSE Head(s) + SumSeq(Tail(s))

Zeroes(n) == [i \in 1..n |-> 0]

\* a 32-byte value whose last byte is k
B32(k) == [i \in 1..Bytes32_LEN |-> IF i = Bytes32_LEN THEN k ELSE 0]

AssetId_BASE == Zeroes(Bytes32_LEN)

\* lexicographic order of two byte strings of equal length
RECURSIVE bytes_le(_, _)
bytes_le(a, b) ==
    IF a = <<>> THEN TRUE
    ELSE IF Head(a) # Head(b) THEN Head(a) < Head(b)
    ELSE bytes_le(Tail(a), Tail(b))

padded_len_usize(len) ==
    IF len % WORD_SIZE = 0 THEN len ELSE len + (WORD_SIZE - (len % WORD_SIZE))

padded_len(bytes) == padded_len_usize(Len(bytes))

UtxoId_new(tx_id, output_index) == [tx_id |-> tx_id, output_index |-> output_index]

TxPointer_new(block_height, tx_index) ==
    [block_height |-> block_height, tx_index |-> tx_index]

TxPointer_LEN == 2 * WORD_SIZE

StorageSlot_new(key, value) == [key |-> key, value |-> value]

SLOT_SIZE == 2 * Bytes32_LEN

\* an order of the slots by their values
StorageSlot_le_by_value(a, b) == bytes_le(a.value, b.value)

\* Ord for StorageSlot compares the keys only
StorageSlot_le(a, b) == bytes_le(a.key, b.key)

\* ------------------------------------------------------------------ Input

Input_coin_signed(utxo_id, owner, amount, asset_id, tx_pointer, witness_index, maturity) ==
    [variant |-> "CoinSigned", utxo_id |-> utxo_id, owner |-> owner,
     amount |-> amount, asset_id |-> asset_id, tx_pointer |-> tx_pointer,
     witness_index |-> witness_index, maturity |-> maturity]

Input_coin_predicate(utxo_id, owner, amount, asset_id, tx_pointer, maturity, predicate, predicate_data) ==
    [variant |-> "CoinPredicate", utxo_id |-> utxo_id, owner |-> owner,
     amount |-> amount, asset_id |-> asset_id, tx_pointer |-> tx_pointer,
     maturity |-> maturity, predicate |-> predicate,
     predicate_data |-> predicate_data]

Input_contract(utxo_id, balance_root, state_root, tx_pointer, contract_id) ==
    [variant |-> "Contract", utxo_id |-> utxo_id, balance_root |-> balance_root,
     state_root |-> state_root, tx_pointer |-> tx_pointer,
     contract_id |-> contract_id]

Input_message_signed(message_id, sender, recipient, amount, nonce, witness_index, data) ==
    [variant |-> "MessageSigned", message_id |-> message_id, sender |-> sender,
     recipient |-> recipient, amount |-> amount, nonce |-> nonce,
     witness_index |-> witness_index, data |-> data]

Input_message_predicate(message_id, sender, recipient, amount, nonce, data, predicate, predicate_data) ==
    [variant |-> "MessagePredicate", message_id |-> message_id, sender |-> sender,
     recipient |-> recipient, amount |-> amount, nonce |-> nonce, data |-> data,
     predicate |-> predicate, predicate_data |-> predicate_data]

INPUT_COIN_FIXED_SIZE ==
    WORD_SIZE                        \* identifier
    + Bytes32_LEN + WORD_SIZE        \* utxo id
    + Bytes32_LEN                    \* owner
    + WORD_SIZE                      \* amount
    + Bytes32_LEN                    \* asset id
    + TxPointer_LEN
    + WORD_SIZE                      \* witness index
    + WORD_SIZE                      \* maturity
    + WORD_SIZE                      \* predicate size
    + WORD_SIZE                      \* predicate data size

INPUT_CONTRACT_SIZE ==
    WORD_SIZE + Bytes32_LEN + WORD_SIZE + Bytes32_LEN + Bytes32_LEN
    + TxPointer_LEN + Bytes32_LEN

INPUT_MESSAGE_FIXED_SIZE ==
    WORD_SIZE                        \* identifier
    + Bytes32_LEN                    \* message id
    + Bytes32_LEN                    \* sender
    + Bytes32_LEN                    \* recipient
    + WORD_SIZE                      \* amount
    + WORD_SIZE                      \* nonce
    + WORD_SIZE                      \* witness index
    + WORD_SIZE                      \* data size
    + WORD_SIZE                      \* predicate size
    + WORD_SIZE                      \* predicate data size

Input_serialized_size(input) ==
    CASE input.variant = "CoinSigned" -> INPUT_COIN_FIXED_SIZE
      [] input.variant = "CoinPredicate" ->
            INPUT_COIN_FIXED_SIZE + padded_len(input.predicate)
                + padded_len(input.predicate_data)
      [] input.variant = "Contract" -> INPUT_CONTRACT_SIZE
      [] input.variant = "MessageSigned" ->
            INPUT_MESSAGE_FIXED_SIZE + padded_len(input.data)
      [] input.variant = "MessagePredicate" ->
            INPUT_MESSAGE_FIXED_SIZE + padded_len(input.data)
                + padded_len(input.predicate) + padded_len(input.predicate_data)

Input_is_coin(input) == input.variant \in {"CoinSigned", "CoinPredicate"}
Input_is_message(input) == input.variant \in {"MessageSigned", "MessagePredicate"}

Input_utxo_id(input) ==
    IF input.variant \in {"CoinSigned", "CoinPredicate", "Contract"}
      THEN Some(input.utxo_id) ELSE None

Input_asset_id(input) ==
    IF Input_is_coin(input) THEN Some(input.asset_id)
    ELSE IF Input_is_message(input) THEN Some(AssetId_BASE)
    ELSE None

Input_contract_id(input) ==
    IF input.variant = "Contract" THEN Some(input.contract_id) ELSE None

Input_message_id(input) ==
    IF Input_is_message(input) THEN Some(input.message_id) ELSE None

\* ----------------------------------------------------------------- Output

Output_coin(to, amount, asset_id) ==
    [variant |-> "Coin", to |-> to, amount |-> amount, asset_id |-> asset_id]

Output_contract(input_index, balance_root, state_root) ==
    [variant |-> "Contract", input_index |-> input_index,
     balance_root |-> balance_root, state_root |-> state_root]

Output_message(recipient, amount) ==
    [variant |-> "Message", recipient |-> recipient, amount |-> amount]

Output_change(to, amount, asset_id) ==
    [variant |-> "Change", to |-> to, amount |-> amount, asset_id |-> asset_id]

Output_variable(to, amount, asset_id) ==
    [variant |-> "Variable", to |-> to, amount |-> amount, asset_id |-> asset_id]

Output_contract_created(contract_id, state_root) ==
    [variant |-> "ContractCreated", contract_id |-> contract_id,
     state_root |-> state_root]

OUTPUT_CCV_SIZE == WORD_SIZE + Bytes32_LEN + WORD_SIZE + Bytes32_LEN
OUTPUT_MESSAGE_SIZE == WORD_SIZE + Bytes32_LEN + WORD_SIZE
OUTPUT_CONTRACT_SIZE == WORD_SIZE + WORD_SIZE + Bytes32_LEN + Bytes32_LEN
OUTPUT_CONTRACT_CREATED_SIZE == WORD_SIZE + Bytes32_LEN + Bytes32_LEN

Output_serialized_size(output) ==
    CASE output.variant \in {"Coin", "Change", "Variable"} -> OUTPUT_CCV_SIZE
      [] output.variant = "Message" -> OUTPUT_MESSAGE_SIZE
      [] output.variant = "Contract" -> OUTPUT_CONTRACT_SIZE
      [] output.variant = "ContractCreated" -> OUTPUT_CONTRACT_CREATED_SIZE

\* a Witness is its byte vector; on the wire a length word and the padded bytes
Witness_serialized_size(witness) == WORD_SIZE + padded_len(witness)

\* ------------------------------------------------------------ Transaction

Transaction_script(gas_price, gas_limit, maturity, script, script_data, inputs, outputs, witnesses) ==
    [variant |-> "Script", gas_price |-> gas_price, gas_limit |-> gas_limit,
     maturity |-> maturity, receipts_root |-> Zeroes(Bytes32_LEN),
     script |-> script, script_data |-> script_data, inputs |-> inputs,
     outputs |-> outputs, witnesses |-> witnesses]

Transaction_create(gas_price, gas_limit, maturity, bytecode_witness_index, salt, storage_slots, inputs, outputs, witnesses) ==
    LET bytecode_length ==
            IF bytecode_witness_index < Len(witnesses)
              THEN Len(witnesses[bytecode_witness_index + 1]) \div 4
              ELSE 0
    IN  [variant |-> "Create", gas_price |-> gas_price, gas_limit |-> gas_limit,
         maturity |-> maturity, bytecode_length |-> bytecode_length,
         bytecode_witness_index |-> bytecode_witness_index, salt |-> salt,
         storage_slots |-> storage_slots, inputs |-> inputs,
         outputs |-> outputs, witnesses |-> witnesses]

inputs_size(t) == SumSeq([i \in 1..Len(t.inputs) |-> Input_serialized_size(t.inputs[i])])
outputs_size(t) ==
    SumSeq([i \in 1..Len(t.outputs) |-> Output_serialized_size(t.outputs[i])])
witnesses_size(t) ==
    SumSeq([i \in 1..Len(t.witnesses) |-> Witness_serialized_size(t.witnesses[i])])

\* Script field offsets, relative to the start of the Script body
Script_gas_price_offset == 0
Script_gas_limit_offset == Script_gas_price_offset + WORD_SIZE
Script_maturity_offset == Script_gas_limit_offset + WORD_SIZE
Script_receipts_root_offset ==
    Script_maturity_offset + WORD_SIZE
        + WORD_SIZE     \* script size
        + WORD_SIZE     \* script data size
        + WORD_SIZE     \* inputs size
        + WORD_SIZE     \* outputs size
        + WORD_SIZE     \* witnesses size
Script_script_offset == Script_receipts_root_offset + Bytes32_LEN
Script_script_data_offset(t) == Script_script_offset + padded_len(t.script)
Script_inputs_offset(t) == Script_script_data_offset(t) + padded_len(t.script_data)
Script_outputs_offset(t) == Script_inputs_offset(t) + inputs_size(t)
Script_witnesses_offset(t) == Script_outputs_offset(t) + outputs_size(t)
\* a metered size that counts the witnesses too
Script_metered_with_witnesses(t) ==
    Script_witnesses_offset(t) + witnesses_size(t)

Script_metered_bytes_size(t) == Script_witnesses_offset(t)
Script_serialized_size(t) == Script_witnesses_offset(t) + witnesses_size(t)

\* Create field offsets, relative to the start of the Create body
Create_gas_price_offset == 0
Create_gas_limit_offset == Create_gas_price_offset + WORD_SIZE
Create_maturity_offset == Create_gas_limit_offset + WORD_SIZE
Create_bytecode_length_offset == Create_maturity_offset + WORD_SIZE
Create_bytecode_witness_index_offset == Create_bytecode_length_offset + WORD_SIZE
Create_salt_offset ==
    Create_bytecode_witness_index_offset + WORD_SIZE
        + WORD_SIZE     \* storage slots size
        + WORD_SIZE     \* inputs size
        + WORD_SIZE     \* outputs size
        + WORD_SIZE     \* witnesses size
Create_storage_slots_offset == Create_salt_offset + Bytes32_LEN
Create_inputs_offset(t) ==
    Create_storage_slots_offset + Len(t.storage_slots) * SLOT_SIZE
Create_outputs_offset(t) == Create_inputs_offset(t) + inputs_size(t)
Create_witnesses_offset(t) == Create_outputs_offset(t) + outputs_size(t)
Create_metered_bytes_size(t) == Create_witnesses_offset(t)
Create_serialized_size(t) == Create_witnesses_offset(t) + witnesses_size(t)

metered_bytes_size(t) ==
    IF t.variant = "Script" THEN Script_metered_bytes_size(t)
    ELSE Create_metered_bytes_size(t)

Transaction_serialized_size(t) ==
    IF t.variant = "Script" THEN Script_serialized_size(t)
    ELSE Create_serialized_size(t)

\* inputs_offset_at with the sum over the earlier inputs left out
Script_inputs_offset_at_first(t, idx) ==
    IF idx < Len(t.inputs) THEN Some(Script_inputs_offset(t)) ELSE None

\* Inputs::inputs_offset_at: the offset of input idx in the Script's bytes
Script_inputs_offset_at(t, idx) ==
    IF idx < Len(t.inputs)
      THEN Some(Script_inputs_offset(t)
                  + SumSeq([i \in 1..idx |-> Input_serialized_size(t.inputs[i])]))
      ELSE None

Create_inputs_offset_at(t, idx) ==
    IF idx < Len(t.inputs)
      THEN Some(Create_inputs_offset(t)
                  + SumSeq([i \in 1..idx |-> Input_serialized_size(t.inputs[i])]))
      ELSE None

inputs_offset_at(t, idx) ==
    IF t.variant = "Script" THEN Script_inputs_offset_at(t, idx)
    ELSE Create_inputs_offset_at(t, idx)

\* Transaction::offset: where the Script / Create body starts in the bytes
\* of a Transaction, after the variant word
Transaction_offset == WORD_SIZE

\* the fixed-size prefix of a serialized transaction, variant word included
TRANSACTION_SCRIPT_FIXED_SIZE == WORD_SIZE + Script_script_offset
TRANSACTION_CREATE_FIXED_SIZE == WORD_SIZE + Create_storage_slots_offset

\* Transaction::inputs_offset (offset.rs)
Transaction_inputs_offset(t) ==
    IF t.variant = "Script"
      THEN TRANSACTION_SCRIPT_FIXED_SIZE + padded_len(t.script)
               + padded_len(t.script_data)
      ELSE TRANSACTION_CREATE_FIXED_SIZE + SLOT_SIZE * Len(t.storage_slots)

\* Transaction::input_offset / _input_offset (offset.rs), no metadata cached
input_offset(t, index) ==
    IF index < Len(t.inputs)
      THEN Some(SumSeq([i \in 1..index |-> Input_serialized_size(t.inputs[i])])
                  + Transaction_inputs_offset(t))
      ELSE None

\* the asset ids of the coin inputs alone
RECURSIVE input_asset_ids_coins(_)
input_asset_ids_coins(inputs) ==
    IF inputs = <<>> THEN <<>>
    ELSE (IF Input_is_coin(Head(inputs)) THEN <<Head(inputs).asset_id>> ELSE <<>>)
            \o input_asset_ids_coins(Tail(inputs))

\* the asset ids of the inputs, in order (messages count as the base asset)
RECURSIVE input_asset_ids(_)
input_asset_ids(inputs) ==
    IF inputs = <<>> THEN <<>>
    ELSE LET a == Input_asset_id(Head(inputs))
         IN  (IF a.some THEN <<a.v>> ELSE <<>>) \o input_asset_ids(Tail(inputs))

SeqRange(s) == {s[i] : i \in 1..Len(s)}

\* ------------------------------------------------------------- validation

OkUnit == Ok("unit")
VErr(kind) == Err([kind |-> kind])
VErrIndex(kind, index) == Err([kind |-> kind, index |-> index])
VErrId(kind, id) == Err([kind |-> kind, id |-> id])

\* the first failure of a sequence of results, as `?` / try_for_each report it
RECURSIVE FirstErr(_)
FirstErr(rs) ==
    IF Len(rs) = 0 THEN OkUnit
    ELSE IF ~rs[1].ok THEN rs[1]
    ELSE FirstErr([i \in 1..(Len(rs) - 1) |-> rs[i + 1]])

\* Contract::root_from_code: a digest of the code (abstracted to a checksum)
root_from_code(code) ==
    [i \in 1..Bytes32_LEN |->
        IF i = 1 THEN 255
        ELSE IF i = Bytes32_LEN THEN (Len(code) + SumSeq(code)) % 256
        ELSE 0]

predicate_owner(predicate) == root_from_code(predicate)

is_predicate_owner_valid(owner, predicate) == owner = predicate_owner(predicate)

\* a signature by the key whose address is B32(k); recovery gives that
\* address back for every message, and fails on the all-zero signature tail
Signature_by(k) == [i \in 1..Signature_LEN |-> IF i = Signature_LEN THEN k ELSE 0]

recover_owner(signature) ==
    IF signature[Signature_LEN] = 0 THEN None
    ELSE Some(B32(signature[Signature_LEN]))

Input_validate_signature(input, index, witnesses) ==
    IF input.variant \in {"CoinSigned", "MessageSigned"} THEN
        LET owner == IF input.variant = "CoinSigned" THEN input.owner
                     ELSE input.recipient
        IN  IF input.witness_index >= Len(witnesses)
              THEN VErrIndex("InputWitnessIndexBounds", index)
            ELSE LET witness == witnesses[input.witness_index + 1]
                 IN  IF Len(witness) # Signature_LEN
                       THEN VErrIndex("InputInvalidSignature", index)
                     ELSE IF ~recover_owner(witness).some
                       THEN VErrIndex("InputInvalidSignature", index)
                     ELSE IF owner # recover_owner(witness).v
                       THEN VErrIndex("InputInvalidSignature", index)
                     ELSE OkUnit
    ELSE IF input.variant \in {"CoinPredicate", "MessagePredicate"} THEN
        LET owner == IF input.variant = "CoinPredicate" THEN input.owner
                     ELSE input.recipient
        IN  IF ~is_predicate_owner_valid(owner, input.predicate)
              THEN VErrIndex("InputPredicateOwner", index)
              ELSE OkUnit
    ELSE OkUnit

\* the input rules with a contract input content with one or more outputs
Input_validate_some_output(input, index, outputs, witnesses, parameters) ==
    LET isPred == input.variant \in {"CoinPredicate", "MessagePredicate"}
        isSigned == input.variant \in {"CoinSigned", "MessageSigned"}
        associated == {j \in 1..Len(outputs) :
                          /\ outputs[j].variant = "Contract"
                          /\ outputs[j].input_index = index}
    IN  IF isPred /\ Len(input.predicate) = 0
          THEN VErrIndex("InputPredicateEmpty", index)
        ELSE IF isPred /\ Len(input.predicate) > parameters.max_predicate_length
          THEN VErrIndex("InputPredicateLength", index)
        ELSE IF isPred /\ Len(input.predicate_data) > parameters.max_predicate_data_length
          THEN VErrIndex("InputPredicateDataLength", index)
        ELSE IF isSigned /\ input.witness_index >= Len(witnesses)
          THEN VErrIndex("InputWitnessIndexBounds", index)
        ELSE IF input.variant = "Contract" /\ associated = {}
          THEN VErrIndex("InputContractAssociatedOutputContract", index)
        ELSE IF Input_is_message(input)
                /\ Len(input.data) > parameters.max_message_data_length
          THEN VErrIndex("InputMessageDataLength", index)
        ELSE OkUnit

Input_validate_without_signature(input, index, outputs, witnesses, parameters) ==
    LET isPred == input.variant \in {"CoinPredicate", "MessagePredicate"}
        isSigned == input.variant \in {"CoinSigned", "MessageSigned"}
        associated == {j \in 1..Len(outputs) :
                          /\ outputs[j].variant = "Contract"
                          /\ outputs[j].input_index = index}
    IN  IF isPred /\ Len(input.predicate) = 0
          THEN VErrIndex("InputPredicateEmpty", index)
        ELSE IF isPred /\ Len(input.predicate) > parameters.max_predicate_length
          THEN VErrIndex("InputPredicateLength", index)
        ELSE IF isPred /\ Len(input.predicate_data) > parameters.max_predicate_data_length
          THEN VErrIndex("InputPredicateDataLength", index)
        ELSE IF isSigned /\ input.witness_index >= Len(witnesses)
          THEN VErrIndex("InputWitnessIndexBounds", index)
        ELSE IF input.variant = "Contract" /\ Cardinality(associated) # 1
          THEN VErrIndex("InputContractAssociatedOutputContract", index)
        ELSE IF Input_is_message(input)
                /\ Len(input.data) > parameters.max_message_data_length
          THEN VErrIndex("InputMessageDataLength", index)
        ELSE OkUnit

\* Output::validate reporting the input index in place of the output's
Output_validate_input_index(output, index, inputs) ==
    IF output.variant = "Contract" THEN
        IF output.input_index < Len(inputs)
             /\ inputs[output.input_index + 1].variant = "Contract"
          THEN OkUnit
          ELSE VErrIndex("OutputContractInputIndex", output.input_index)
    ELSE OkUnit

Output_validate(output, index, inputs) ==
    IF output.variant = "Contract" THEN
        IF output.input_index < Len(inputs)
             /\ inputs[output.input_index + 1].variant = "Contract"
          THEN OkUnit
          ELSE VErrIndex("OutputContractInputIndex", index)
    ELSE OkUnit

\* internals::next_duplicate (std): the first item already seen earlier
next_duplicate(items) ==
    LET dups == {j \in 1..Len(items) : \E i \in 1..(j - 1) : items[i] = items[j]}
    IN  IF dups = {} THEN None
        ELSE Some(items[CHOOSE j \in dups : \A k \in dups : j <= k])

\* Itertools::sorted on numbers
RECURSIVE sorted(_)
sorted_insert(x, seq) ==
    LET k == Cardinality({i \in 1..Len(seq) : seq[i] <= x})
    IN  SubSeq(seq, 1, k) \o <<x>> \o SubSeq(seq, k + 1, Len(seq))

sorted(items) ==
    IF Len(items) = 0 THEN <<>> ELSE sorted_insert(Head(items), sorted(Tail(items)))

\* internals::next_duplicate (not std): sorted, then the first window of two
\* equal neighbours
next_duplicate_no_std(items) ==
    LET s == sorted(items)
        windows == {i \in 1..(Len(s) - 1) : s[i] = s[i + 1]}
    IN  IF windows = {} THEN None
        ELSE Some(s[CHOOSE i \in windows : \A k \in windows : i <= k])

\* the Some(..) values of a sequence of options, in order
RECURSIVE filter_some(_)
filter_some(opts) ==
    IF Len(opts) = 0 THEN <<>>
    ELSE (IF opts[1].some THEN <<opts[1].v>> ELSE <<>>)
            \o filter_some([i \in 1..(Len(opts) - 1) |-> opts[i + 1]])

validate_without_signature_internal(block_height, parameters, gas_limit, maturity, inputs, outputs, witnesses) ==
    LET assets == input_asset_ids(inputs)
        changeDuplicated ==
            \E a \in SeqRange(assets) :
                Cardinality({j \in 1..Len(outputs) :
                                /\ outputs[j].variant = "Change"
                                /\ outputs[j].asset_id = a}) > 1
        utxo_ids == filter_some([i \in 1..Len(inputs) |->
                        IF Input_is_coin(inputs[i]) THEN Input_utxo_id(inputs[i])
                        ELSE None])
        contract_ids == filter_some([i \in 1..Len(inputs) |->
                            Input_contract_id(inputs[i])])
        message_ids == filter_some([i \in 1..Len(inputs) |->
                            Input_message_id(inputs[i])])
        output_check(index) ==
            LET output == outputs[index + 1]
            IN  IF ~Output_validate(output, index, inputs).ok
                  THEN Output_validate(output, index, inputs)
                ELSE IF output.variant = "Change"
                        /\ output.asset_id \notin SeqRange(assets)
                  THEN VErrId("TransactionOutputChangeAssetIdNotFound", output.asset_id)
                ELSE IF output.variant = "Coin"
                        /\ output.asset_id \notin SeqRange(assets)
                  THEN VErrId("TransactionOutputCoinAssetIdNotFound", output.asset_id)
                ELSE OkUnit
    IN  IF gas_limit > parameters.max_gas_per_tx THEN VErr("TransactionGasLimit")
        ELSE IF block_height < maturity THEN VErr("TransactionMaturity")
        ELSE IF Len(inputs) > parameters.max_inputs THEN VErr("TransactionInputsMax")
        ELSE IF Len(outputs) > parameters.max_outputs THEN VErr("TransactionOutputsMax")
        ELSE IF Len(witnesses) > parameters.max_witnesses
          THEN VErr("TransactionWitnessesMax")
        ELSE IF changeDuplicated THEN VErr("TransactionOutputChangeAssetIdDuplicated")
        ELSE IF next_duplicate(utxo_ids).some
          THEN VErrId("DuplicateInputUtxoId", next_duplicate(utxo_ids).v)
        ELSE IF next_duplicate(contract_ids).some
          THEN VErrId("DuplicateInputContractId", next_duplicate(contract_ids).v)
        ELSE IF next_duplicate(message_ids).some
          THEN VErrId("DuplicateMessageInputId", next_duplicate(message_ids).v)
        ELSE LET ins == FirstErr([i \in 1..Len(inputs) |->
                            Input_validate_without_signature(
                                inputs[i], i - 1, outputs, witnesses, parameters)])
             IN  IF ~ins.ok THEN ins
                 ELSE FirstErr([j \in 1..Len(outputs) |-> output_check(j - 1)])

\* the Create arm's scan of the outputs, carrying the contract_created flag
RECURSIVE create_outputs_check(_, _, _)
create_outputs_check(outputs, j, contract_created) ==
    IF j > Len(outputs) THEN OkUnit
    ELSE LET output == outputs[j]
         IN  IF output.variant = "Contract"
               THEN VErrIndex("TransactionCreateOutputContract", j - 1)
             ELSE IF output.variant = "Variable"
               THEN VErrIndex("TransactionCreateOutputVariable", j - 1)
             ELSE IF output.variant = "Change" /\ output.asset_id # AssetId_BASE
               THEN VErrIndex("TransactionCreateOutputChangeNotBaseAsset", j - 1)
             ELSE IF output.variant = "ContractCreated" /\ contract_created
               THEN VErrIndex("TransactionCreateOutputContractCreatedMultiple", j - 1)
             ELSE create_outputs_check(outputs, j + 1,
                        contract_created \/ output.variant = "ContractCreated")

validate_without_signature(t, block_height, parameters) ==
    LET common == validate_without_signature_internal(
                      block_height, parameters, t.gas_limit, t.maturity,
                      t.inputs, t.outputs, t.witnesses)
    IN  IF ~common.ok THEN common
        ELSE IF t.variant = "Script" THEN
            IF Len(t.script) > parameters.max_script_length
              THEN VErr("TransactionScriptLength")
            ELSE IF Len(t.script_data) > parameters.max_script_data_length
              THEN VErr("TransactionScriptDataLength")
            ELSE FirstErr([j \in 1..Len(t.outputs) |->
                     IF t.outputs[j].variant = "ContractCreated"
                       THEN VErrIndex("TransactionScriptOutputContractCreated", j - 1)
                       ELSE OkUnit])
        ELSE
            IF t.bytecode_witness_index >= Len(t.witnesses)
              THEN VErr("TransactionCreateBytecodeWitnessIndex")
            ELSE LET bytecode_witness_len ==
                         Len(t.witnesses[t.bytecode_witness_index + 1])
                 IN  IF bytecode_witness_len > parameters.contract_max_size
                          \/ bytecode_witness_len \div 4 # t.bytecode_length
                       THEN VErr("TransactionCreateBytecodeLen")
                     ELSE IF Len(t.storage_slots) > parameters.max_storage_slots
                       THEN VErr("TransactionCreateStorageSlotMax")
                     ELSE IF \E k \in 1..(Len(t.storage_slots) - 1) :
                                ~StorageSlot_le(t.storage_slots[k], t.storage_slots[k + 1])
                       THEN VErr("TransactionCreateStorageSlotOrder")
                     ELSE LET ins == FirstErr([i \in 1..Len(t.inputs) |->
                                         IF t.inputs[i].variant = "Contract"
                                           THEN VErrIndex("TransactionCreateInputContract", i - 1)
                                           ELSE OkUnit])
                          IN  IF ~ins.ok THEN ins
                              ELSE create_outputs_check(t.outputs, 1, FALSE)

validate_input_signature(t) ==
    FirstErr([i \in 1..Len(t.inputs) |->
                 Input_validate_signature(t.inputs[i], i - 1, t.witnesses)])

validate(t, block_height, parameters) ==
    LET structural == validate_without_signature(t, block_height, parameters)
    IN  IF ~structural.ok THEN structural ELSE validate_input_signature(t)

\* ------------------------------------------------------ f64 arithmetic

RECURSIVE BitLen(_)
BitLen(n) == IF n = 0 THEN 0 ELSE 1 + BitLen(n \div 2)

\* n / d rounded to the nearest integer, ties to even
RoundHalfEven(n, d) ==
    LET q == n \div d
        r == n % d
    IN  IF 2 * r < d THEN q
        ELSE IF 2 * r > d THEN q + 1
        ELSE IF q % 2 = 0 THEN q ELSE q + 1

\* `x as f64`: the nearest value with a MantBits-bit significand
f64_from_word(x) ==
    IF BitLen(x) <= MantBits THEN x
    ELSE LET u == 2^(BitLen(x) - MantBits) IN u * RoundHalfEven(x, u)

\* `(a / f).ceil() as Word` for integer-valued f64 operands: the quotient is
\* rounded to the significand first, then ceil, then the saturating cast
f64_div_ceil_as_word(a, f) ==
    IF f = 0 THEN (IF a = 0 THEN 0 ELSE WORD_MAX)
    ELSE IF a = 0 THEN 0
    ELSE IF a < f THEN 1
    ELSE LET e == BitLen(a \div f)
         IN  IF e >= MantBits
               THEN LET u == 2^(e - MantBits)
                    IN  Min(u * RoundHalfEven(a, f * u), WORD_MAX)
               ELSE LET sc == 2^(MantBits - e)
                        n == RoundHalfEven(a * sc, f)
                    IN  Min((n + sc - 1) \div sc, WORD_MAX)

\* ----------------------------------------------------- CheckedTransaction

Panic(msg) == [ok |-> FALSE, panic |-> msg]
IsPanic(r) == "panic" \in DOMAIN r

EmptyMap == [k \in {} |-> 0]
MapPut(m, key, val) ==
    [k \in (DOMAIN m) \cup {key} |-> IF k = key THEN val ELSE m[k]]

\* lines 73-86: add up the coin inputs per asset with `+=`; an overflowing
\* addition panics when overflow checks are compiled in and wraps otherwise
RECURSIVE sum_coin_inputs(_, _, _, _)
sum_coin_inputs(inputs, k, balances, overflow_checks) ==
    IF k > Len(inputs) THEN Ok(balances)
    ELSE LET input == inputs[k]
         IN  IF input.variant \in {"CoinPredicate", "CoinSigned"}
               THEN LET cur == IF input.asset_id \in DOMAIN balances
                                 THEN balances[input.asset_id] ELSE 0
                        total == cur + input.amount
                    IN  IF total > WORD_MAX /\ overflow_checks
                          THEN Panic("attempt to add with overflow")
                          ELSE sum_coin_inputs(inputs, k + 1,
                                   MapPut(balances, input.asset_id,
                                          total % (WORD_MAX + 1)),
                                   overflow_checks)
               ELSE sum_coin_inputs(inputs, k + 1, balances, overflow_checks)

\* lines 92-110: the byte fee, the gas fee and their sum
check_fee(t, t_byte_price, params) ==
    LET factor == f64_from_word(params.gas_price_factor)
        bytes == checked_mul(t_byte_price, metered_bytes_size(t))
        gas == checked_mul(t.gas_price, t.gas_limit)
    IN  IF ~bytes.some THEN VErr("ArithmeticOverflow")
        ELSE IF ~gas.some THEN VErr("ArithmeticOverflow")
        ELSE LET bytes_fee == f64_div_ceil_as_word(f64_from_word(bytes.v), factor)
                 gas_fee == f64_div_ceil_as_word(f64_from_word(gas.v), factor)
                 fee == checked_add(bytes_fee, gas_fee)
             IN  IF ~fee.some THEN VErr("ArithmeticOverflow")
                 ELSE Ok([bytes |-> bytes_fee, fee |-> fee.v])

InsufficientFeeAmount(expected, provided) ==
    Err([kind |-> "InsufficientFeeAmount", expected |-> expected,
         provided |-> provided])

InsufficientInputAmount(asset, expected, provided) ==
    Err([kind |-> "InsufficientInputAmount", asset |-> asset,
         expected |-> expected, provided |-> provided])

deduct_fee_unreported(balances, fee) ==
    \* the shortfall reported against an empty balance
    IF AssetId_BASE \notin DOMAIN balances \/ balances[AssetId_BASE] < fee
      THEN InsufficientFeeAmount(fee, 0)
      ELSE Ok(MapPut(balances, AssetId_BASE, balances[AssetId_BASE] - fee))

\* lines 112-123: take the fee from the base-asset balance
deduct_fee(balances, fee) ==
    IF AssetId_BASE \notin DOMAIN balances THEN InsufficientFeeAmount(fee, 0)
    ELSE LET rest == checked_sub(balances[AssetId_BASE], fee)
         IN  IF ~rest.some
               THEN InsufficientFeeAmount(fee, balances[AssetId_BASE])
               ELSE Ok(MapPut(balances, AssetId_BASE, rest.v))

\* lines 125-147: take every Coin output from the balance of its asset
RECURSIVE deduct_coin_outputs(_, _, _)
deduct_coin_outputs(outputs, j, balances) ==
    IF j > Len(outputs) THEN Ok(balances)
    ELSE LET output == outputs[j]
         IN  IF output.variant # "Coin"
               THEN deduct_coin_outputs(outputs, j + 1, balances)
             ELSE IF output.asset_id \notin DOMAIN balances
               THEN VErrId("TransactionOutputCoinAssetIdNotFound", output.asset_id)
             ELSE LET rest == checked_sub(balances[output.asset_id], output.amount)
                  IN  IF ~rest.some
                        THEN InsufficientInputAmount(output.asset_id, output.amount,
                                                     balances[output.asset_id])
                        ELSE deduct_coin_outputs(outputs, j + 1,
                                 MapPut(balances, output.asset_id, rest.v))

initial_free_balances(t, t_byte_price, params, overflow_checks) ==
    LET summed == sum_coin_inputs(t.inputs, 1, EmptyMap, overflow_checks)
    IN  IF ~summed.ok THEN summed
        ELSE LET fees == check_fee(t, t_byte_price, params)
             IN  IF ~fees.ok THEN fees
                 ELSE LET afterFee == deduct_fee(summed.val, fees.val.fee)
                      IN  IF ~afterFee.ok THEN afterFee
                          ELSE LET afterOut ==
                                       deduct_coin_outputs(t.outputs, 1, afterFee.val)
                               IN  IF ~afterOut.ok THEN afterOut
                                   ELSE Ok([free_balances |-> afterOut.val,
                                            max_fee |-> fees.val.fee,
                                            min_fee |-> fees.val.bytes])

check_balances_first(t, t_byte_price, block_height, params, overflow_checks) ==
    \* the balances computed ahead of the validation
    LET available == initial_free_balances(t, t_byte_price, params, overflow_checks)
        valid == validate(t, block_height, params)
    IN  IF ~available.ok THEN available
        ELSE IF ~valid.ok THEN valid
        ELSE Ok([transaction |-> t,
                 initial_free_balances |-> available.val.free_balances,
                 block_height |-> block_height,
                 max_fee |-> available.val.max_fee,
                 min_fee |-> available.val.min_fee])

check(t, t_byte_price, block_height, params, overflow_checks) ==
    LET valid == validate(t, block_height, params)
    IN  IF ~valid.ok THEN valid
        ELSE LET available ==
                     initial_free_balances(t, t_byte_price, params, overflow_checks)
             IN  IF ~available.ok THEN available
                 ELSE Ok([transaction |-> t,
                          initial_free_balances |-> available.val.free_balances,
                          block_height |-> block_height,
                          max_fee |-> available.val.max_fee,
                          min_fee |-> available.val.min_fee])

\* ------------------------------------------------------ wire primitives

\* the largest value the model holds; a stored word beyond it reads as this
HugeWord == 2147483647

\* Word::to_be_bytes, right-justified in the 8-byte word
to_be_bytes(v) ==
    [i \in 1..WORD_SIZE |->
        IF WORD_SIZE - i >= 4 THEN 0 ELSE (v \div (256^(WORD_SIZE - i))) % 256]

from_be_bytes(b) ==
    IF b[1] # 0 \/ b[2] # 0 \/ b[3] # 0 \/ b[4] # 0 \/ b[5] >= 128 THEN HugeWord
    ELSE ((b[5] * 256 + b[6]) * 256 + b[7]) * 256 + b[8]

Sub(buf, off, len) == SubSeq(buf, off + 1, off + len)

\* a request for up to AllocAlways elements is served in every run
AllocAlways == 65536

\* the panic of Vec::with_capacity / vec![_; n] for more than isize::MAX bytes
CapacityOverflow == Panic("capacity overflow")

\* handle_alloc_error: the process aborts when the allocator returns null
AllocError == Panic("memory allocation failed")

\* an allocation that is always served
after_allocate_served(count, r) == r

\* Vec::with_capacity(n) / vec![_; n] for the count in the 8 bytes `count`,
\* then r: a count above isize::MAX panics, a large one aborts in a run whose
\* allocator refuses it
after_allocate(count, r) ==
    IF count[1] >= 128 THEN CapacityOverflow
    ELSE IF alloc_fails /\ from_be_bytes(count) > AllocAlways THEN AllocError
    ELSE r

\* bytes::store_number_unchecked
store_number(v) == to_be_bytes(v)

\* bytes::store_raw_bytes: the bytes, zero-filled to the next word boundary
store_raw_bytes(bytes) == bytes \o Zeroes(padded_len(bytes) - Len(bytes))

\* bytes::restore_number_unchecked / restore_usize_unchecked at an offset
restore_number(buf, off) == from_be_bytes(Sub(buf, off, WORD_SIZE))

\* bytes::restore_u8_unchecked / restore_u16_unchecked: the word, truncated
restore_u8(buf, off) == restore_number(buf, off) % 256
restore_u16(buf, off) == restore_number(buf, off) % 65536
restore_u32(buf, off) == restore_number(buf, off)

RECURSIVE Flatten(_)
Flatten(ss) == IF Len(ss) = 0 THEN <<>> ELSE Head(ss) \o Flatten(Tail(ss))

Eof == Err("UnexpectedEof")
InvalidData == Err("InvalidData")

\* ------------------------------------------------- element wire formats

UtxoId_bytes(utxo_id) == utxo_id.tx_id \o store_number(utxo_id.output_index)

UtxoId_at(buf, off) ==
    UtxoId_new(Sub(buf, off, Bytes32_LEN), restore_u8(buf, off + Bytes32_LEN))

TxPointer_bytes(tx_pointer) ==
    store_number(tx_pointer.block_height) \o store_number(tx_pointer.tx_index)

TxPointer_at(buf, off) ==
    TxPointer_new(restore_u32(buf, off), restore_u16(buf, off + WORD_SIZE))

InputRepr_Coin == 0
InputRepr_Contract == 1
InputRepr_Message == 2

\* From<Input> for InputSpec
InputSpec_from(input) ==
    CASE input.variant = "CoinSigned" ->
            [variant |-> "Coin", utxo_id |-> input.utxo_id, owner |-> input.owner,
             amount |-> input.amount, asset_id |-> input.asset_id,
             tx_pointer |-> input.tx_pointer,
             witness_index |-> input.witness_index, maturity |-> input.maturity,
             predicate |-> <<>>, predicate_data |-> <<>>]
      [] input.variant = "CoinPredicate" ->
            [variant |-> "Coin", utxo_id |-> input.utxo_id, owner |-> input.owner,
             amount |-> input.amount, asset_id |-> input.asset_id,
             tx_pointer |-> input.tx_pointer, witness_index |-> 0,
             maturity |-> input.maturity, predicate |-> input.predicate,
             predicate_data |-> input.predicate_data]
      [] input.variant = "Contract" ->
            [variant |-> "Contract", utxo_id |-> input.utxo_id,
             balance_root |-> input.balance_root, state_root |-> input.state_root,
             tx_pointer |-> input.tx_pointer, contract_id |-> input.contract_id]
      [] input.variant = "MessageSigned" ->
            [variant |-> "Message", message_id |-> input.message_id,
             sender |-> input.sender, recipient |-> input.recipient,
             amount |-> input.amount, nonce |-> input.nonce,
             witness_index |-> input.witness_index, data |-> input.data,
             predicate |-> <<>>, predicate_data |-> <<>>]
      [] input.variant = "MessagePredicate" ->
            [variant |-> "Message", message_id |-> input.message_id,
             sender |-> input.sender, recipient |-> input.recipient,
             amount |-> input.amount, nonce |-> input.nonce, witness_index |-> 0,
             data |-> input.data, predicate |-> input.predicate,
             predicate_data |-> input.predicate_data]

\* From<InputSpec> for Input
Input_from_spec(spec) ==
    CASE spec.variant = "Coin" ->
            IF Len(spec.predicate) = 0
              THEN Input_coin_signed(spec.utxo_id, spec.owner, spec.amount,
                                     spec.asset_id, spec.tx_pointer,
                                     spec.witness_index, spec.maturity)
              ELSE Input_coin_predicate(spec.utxo_id, spec.owner, spec.amount,
                                        spec.asset_id, spec.tx_pointer, spec.maturity,
                                        spec.predicate, spec.predicate_data)
      [] spec.variant = "Contract" ->
            Input_contract(spec.utxo_id, spec.balance_root, spec.state_root,
                           spec.tx_pointer, spec.contract_id)
      [] spec.variant = "Message" ->
            IF Len(spec.predicate) = 0
              THEN Input_message_signed(spec.message_id, spec.sender, spec.recipient,
                                        spec.amount, spec.nonce, spec.witness_index,
                                        spec.data)
              ELSE Input_message_predicate(spec.message_id, spec.sender,
                                           spec.recipient, spec.amount, spec.nonce,
                                           spec.data, spec.predicate,
                                           spec.predicate_data)

\* the wire form of an InputSpec: the tag word, the fixed fields in declared
\* order (scalars as big-endian words, byte vectors as their length), then
\* the byte vectors, each zero-padded to a word boundary
InputSpec_encode(spec) ==
    CASE spec.variant = "Coin" ->
            store_number(InputRepr_Coin) \o UtxoId_bytes(spec.utxo_id) \o spec.owner
            \o store_number(spec.amount) \o spec.asset_id
            \o TxPointer_bytes(spec.tx_pointer) \o store_number(spec.witness_index)
            \o store_number(spec.maturity) \o store_number(Len(spec.predicate))
            \o store_number(Len(spec.predicate_data))
            \o store_raw_bytes(spec.predicate) \o store_raw_bytes(spec.predicate_data)
      [] spec.variant = "Contract" ->
            store_number(InputRepr_Contract) \o UtxoId_bytes(spec.utxo_id)
            \o spec.balance_root \o spec.state_root
            \o TxPointer_bytes(spec.tx_pointer) \o spec.contract_id
      [] spec.variant = "Message" ->
            store_number(InputRepr_Message) \o spec.message_id \o spec.sender
            \o spec.recipient \o store_number(spec.amount) \o store_number(spec.nonce)
            \o store_number(spec.witness_index) \o store_number(Len(spec.data))
            \o store_number(Len(spec.predicate))
            \o store_number(Len(spec.predicate_data))
            \o store_raw_bytes(spec.data) \o store_raw_bytes(spec.predicate)
            \o store_raw_bytes(spec.predicate_data)

\* the inverse of InputSpec_encode on the bytes of buf from off on:
\* Ok([n, spec]) with the number of bytes taken, or an error
InputSpec_decode(buf, off) ==
    LET avail == Len(buf) - off
        tag == restore_number(buf, off)
        o == off + WORD_SIZE
    IN  IF avail < WORD_SIZE THEN Eof
        ELSE IF tag = InputRepr_Coin THEN
            IF avail < INPUT_COIN_FIXED_SIZE THEN Eof
            ELSE LET oOwner == o + Bytes32_LEN + WORD_SIZE
                     oAmount == oOwner + Bytes32_LEN
                     oAsset == oAmount + WORD_SIZE
                     oPointer == oAsset + Bytes32_LEN
                     oWitness == oPointer + TxPointer_LEN
                     oMaturity == oWitness + WORD_SIZE
                     predicate_len == restore_number(buf, oMaturity + WORD_SIZE)
                     predicate_data_len == restore_number(buf, oMaturity + 2 * WORD_SIZE)
                     oPredicate == off + INPUT_COIN_FIXED_SIZE
                     oData == oPredicate + padded_len_usize(predicate_len)
                     n == INPUT_COIN_FIXED_SIZE + padded_len_usize(predicate_len)
                              + padded_len_usize(predicate_data_len)
                 IN  IF predicate_len > avail \/ predicate_data_len > avail \/ avail < n
                       THEN Eof
                       ELSE Ok([n |-> n, v |->
                               [variant |-> "Coin", utxo_id |-> UtxoId_at(buf, o),
                                owner |-> Sub(buf, oOwner, Bytes32_LEN),
                                amount |-> restore_number(buf, oAmount),
                                asset_id |-> Sub(buf, oAsset, Bytes32_LEN),
                                tx_pointer |-> TxPointer_at(buf, oPointer),
                                witness_index |-> restore_u8(buf, oWitness),
                                maturity |-> restore_number(buf, oMaturity),
                                predicate |-> Sub(buf, oPredicate, predicate_len),
                                predicate_data |-> Sub(buf, oData, predicate_data_len)]])
        ELSE IF tag = InputRepr_Contract THEN
            IF avail < INPUT_CONTRACT_SIZE THEN Eof
            ELSE LET oBalance == o + Bytes32_LEN + WORD_SIZE
                     oState == oBalance + Bytes32_LEN
                     oPointer == oState + Bytes32_LEN
                     oContract == oPointer + TxPointer_LEN
                 IN  Ok([n |-> INPUT_CONTRACT_SIZE, v |->
                         [variant |-> "Contract", utxo_id |-> UtxoId_at(buf, o),
                          balance_root |-> Sub(buf, oBalance, Bytes32_LEN),
                          state_root |-> Sub(buf, oState, Bytes32_LEN),
                          tx_pointer |-> TxPointer_at(buf, oPointer),
                          contract_id |-> Sub(buf, oContract, Bytes32_LEN)]])
        ELSE IF tag = InputRepr_Message THEN
            IF avail < INPUT_MESSAGE_FIXED_SIZE THEN Eof
            ELSE LET oSender == o + Bytes32_LEN
                     oRecipient == oSender + Bytes32_LEN
                     oAmount == oRecipient + Bytes32_LEN
                     oNonce == oAmount + WORD_SIZE
                     oWitness == oNonce + WORD_SIZE
                     data_len == restore_number(buf, oWitness + WORD_SIZE)
                     predicate_len == restore_number(buf, oWitness + 2 * WORD_SIZE)
                     predicate_data_len == restore_number(buf, oWitness + 3 * WORD_SIZE)
                     oData == off + INPUT_MESSAGE_FIXED_SIZE
                     oPredicate == oData + padded_len_usize(data_len)
                     oPredData == oPredicate + padded_len_usize(predicate_len)
                     n == INPUT_MESSAGE_FIXED_SIZE + padded_len_usize(data_len)
                              + padded_len_usize(predicate_len)
                              + padded_len_usize(predicate_data_len)
                 IN  IF data_len > avail \/ predicate_len > avail
                          \/ predicate_data_len > avail \/ avail < n
                       THEN Eof
                       ELSE Ok([n |-> n, v |->
                               [variant |-> "Message",
                                message_id |-> Sub(buf, o, Bytes32_LEN),
                                sender |-> Sub(buf, oSender, Bytes32_LEN),
                                recipient |-> Sub(buf, oRecipient, Bytes32_LEN),
                                amount |-> restore_number(buf, oAmount),
                                nonce |-> restore_number(buf, oNonce),
                                witness_index |-> restore_u8(buf, oWitness),
                                data |-> Sub(buf, oData, data_len),
                                predicate |-> Sub(buf, oPredicate, predicate_len),
                                predicate_data |->
                                    Sub(buf, oPredData, predicate_data_len)]])
        ELSE InvalidData

\* io::Read for Input: the bytes the input writes into the buffer
Input_read(input) == InputSpec_encode(InputSpec_from(input))

\* io::Write for Input: Ok([n, v]) or an error
Input_write(buf, off) ==
    LET spec == InputSpec_decode(buf, off)
    IN  IF ~spec.ok THEN spec
        ELSE Ok([n |-> spec.val.n, v |-> Input_from_spec(spec.val.v)])

OutputRepr_Coin == 0
OutputRepr_Contract == 1
OutputRepr_Message == 2
OutputRepr_Change == 3
OutputRepr_Variable == 4
OutputRepr_ContractCreated == 5

Output_repr(output) ==
    CASE output.variant = "Coin" -> OutputRepr_Coin
      [] output.variant = "Contract" -> OutputRepr_Contract
      [] output.variant = "Message" -> OutputRepr_Message
      [] output.variant = "Change" -> OutputRepr_Change
      [] output.variant = "Variable" -> OutputRepr_Variable
      [] output.variant = "ContractCreated" -> OutputRepr_ContractCreated

\* io::Read for Output
Output_read(output) ==
    store_number(Output_repr(output)) \o
    (CASE output.variant \in {"Coin", "Change", "Variable"} ->
             output.to \o store_number(output.amount) \o output.asset_id
       [] output.variant = "Contract" ->
             store_number(output.input_index) \o output.balance_root
             \o output.state_root
       [] output.variant = "Message" ->
             output.recipient \o store_number(output.amount)
       [] output.variant = "ContractCreated" ->
             output.contract_id \o output.state_root)

\* io::Write for Output
Output_write(buf, off) ==
    LET avail == Len(buf) - off
        tag == restore_number(buf, off)
        o == off + WORD_SIZE
        ccv(variant) ==
            IF avail < OUTPUT_CCV_SIZE THEN Eof
            ELSE Ok([n |-> OUTPUT_CCV_SIZE, v |->
                     [variant |-> variant, to |-> Sub(buf, o, Bytes32_LEN),
                      amount |-> restore_number(buf, o + Bytes32_LEN),
                      asset_id |-> Sub(buf, o + Bytes32_LEN + WORD_SIZE, Bytes32_LEN)]])
    IN  IF avail < WORD_SIZE THEN Eof
        ELSE IF tag = OutputRepr_Coin THEN ccv("Coin")
        ELSE IF tag = OutputRepr_Change THEN ccv("Change")
        ELSE IF tag = OutputRepr_Variable THEN ccv("Variable")
        ELSE IF tag = OutputRepr_Contract THEN
            IF avail < OUTPUT_CONTRACT_SIZE THEN Eof
            ELSE Ok([n |-> OUTPUT_CONTRACT_SIZE, v |->
                     Output_contract(restore_u8(buf, o),
                                     Sub(buf, o + WORD_SIZE, Bytes32_LEN),
                                     Sub(buf, o + WORD_SIZE + Bytes32_LEN, Bytes32_LEN))])
        ELSE IF tag = OutputRepr_Message THEN
            IF avail < OUTPUT_MESSAGE_SIZE THEN Eof
            ELSE Ok([n |-> OUTPUT_MESSAGE_SIZE, v |->
                     Output_message(Sub(buf, o, Bytes32_LEN),
                                    restore_number(buf, o + Bytes32_LEN))])
        ELSE IF tag = OutputRepr_ContractCreated THEN
            IF avail < OUTPUT_CONTRACT_CREATED_SIZE THEN Eof
            ELSE Ok([n |-> OUTPUT_CONTRACT_CREATED_SIZE, v |->
                     Output_contract_created(Sub(buf, o, Bytes32_LEN),
                                             Sub(buf, o + Bytes32_LEN, Bytes32_LEN))])
        ELSE InvalidData

\* io::Read for Witness: the length word, then the padded bytes
Witness_read(witness) == store_number(Len(witness)) \o store_raw_bytes(witness)

\* io::Write for Witness
Witness_write(buf, off) ==
    LET avail == Len(buf) - off
        len == restore_number(buf, off)
        n == WORD_SIZE + padded_len_usize(len)
    IN  IF avail < WORD_SIZE THEN Eof
        ELSE IF len > avail \/ avail < n THEN Eof
        ELSE Ok([n |-> n, v |-> Sub(buf, off + WORD_SIZE, len)])

\* io::Read for StorageSlot
StorageSlot_read(slot) == slot.key \o slot.value

\* io::Write for StorageSlot
StorageSlot_write(buf, off) ==
    IF Len(buf) - off < SLOT_SIZE THEN Eof
    ELSE Ok([n |-> SLOT_SIZE, v |->
             StorageSlot_new(Sub(buf, off, Bytes32_LEN),
                             Sub(buf, off + Bytes32_LEN, Bytes32_LEN))])

\* -------------------------------------------------- transaction wire format

\* the element loops of the write impls: `count` elements decoded from offset
\* off on, Ok([off, items]) with the offset after the last one, or the first
\* error; the *_next operators are the loop bodies, given the element's result
RECURSIVE Inputs_write(_, _, _, _)
Inputs_next(buf, off, count, items, r) ==
    IF ~r.ok THEN r
    ELSE Inputs_write(buf, off + r.val.n, count - 1, Append(items, r.val.v))

Inputs_write(buf, off, count, items) ==
    IF count = 0 THEN Ok([off |-> off, items |-> items])
    ELSE Inputs_next(buf, off, count, items, Input_write(buf, off))

RECURSIVE Outputs_write(_, _, _, _)
Outputs_next(buf, off, count, items, r) ==
    IF ~r.ok THEN r
    ELSE Outputs_write(buf, off + r.val.n, count - 1, Append(items, r.val.v))

Outputs_write(buf, off, count, items) ==
    IF count = 0 THEN Ok([off |-> off, items |-> items])
    ELSE Outputs_next(buf, off, count, items, Output_write(buf, off))

RECURSIVE Witnesses_write(_, _, _, _)
Witnesses_next(buf, off, count, items, r) ==
    IF ~r.ok THEN r
    ELSE Witnesses_write(buf, off + r.val.n, count - 1, Append(items, r.val.v))

Witnesses_write(buf, off, count, items) ==
    IF count = 0 THEN Ok([off |-> off, items |-> items])
    ELSE Witnesses_next(buf, off, count, items, Witness_write(buf, off))

RECURSIVE StorageSlots_write(_, _, _, _)
StorageSlots_next(buf, off, count, items, r) ==
    IF ~r.ok THEN r
    ELSE StorageSlots_write(buf, off + SLOT_SIZE, count - 1, Append(items, r.val.v))

StorageSlots_write(buf, off, count, items) ==
    IF count = 0 THEN Ok([off |-> off, items |-> items])
    ELSE StorageSlots_next(buf, off, count, items, StorageSlot_write(buf, off))

elements_bytes(t) ==
    Flatten([i \in 1..Len(t.inputs) |-> Input_read(t.inputs[i])])
    \o Flatten([i \in 1..Len(t.outputs) |-> Output_read(t.outputs[i])])
    \o Flatten([i \in 1..Len(t.witnesses) |-> Witness_read(t.witnesses[i])])

\* io::Read for Script: Ok([n, bytes]) with the bytes written at the start of
\* a buffer of buf_len bytes, or UnexpectedEof
Script_read(t, buf_len) ==
    IF buf_len < Script_serialized_size(t) THEN Eof
    ELSE Ok([n |-> Script_serialized_size(t),
             bytes |->
                store_number(t.gas_price) \o store_number(t.gas_limit)
                \o store_number(t.maturity) \o store_number(Len(t.script))
                \o store_number(Len(t.script_data)) \o store_number(Len(t.inputs))
                \o store_number(Len(t.outputs)) \o store_number(Len(t.witnesses))
                \o t.receipts_root
                \o store_raw_bytes(t.script) \o store_raw_bytes(t.script_data)
                \o elements_bytes(t)])

\* the shared tail of both write impls: the inputs, then the outputs, then
\* the witnesses, each loop starting where the one before it ended
tail_witnesses(ins, outs, wits) ==
    IF ~wits.ok THEN wits
    ELSE Ok([off |-> wits.val.off, inputs |-> ins.val.items,
             outputs |-> outs.val.items, witnesses |-> wits.val.items])

tail_outputs(buf, ins, outs, lens) ==
    IF ~outs.ok THEN outs
    ELSE after_allocate(Sub(buf, lens + 2 * WORD_SIZE, WORD_SIZE),
             tail_witnesses(ins, outs,
                 Witnesses_write(buf, outs.val.off,
                                 restore_number(buf, lens + 2 * WORD_SIZE), <<>>)))

tail_inputs(buf, ins, lens) ==
    IF ~ins.ok THEN ins
    ELSE after_allocate(Sub(buf, lens + WORD_SIZE, WORD_SIZE),
             tail_outputs(buf, ins,
                 Outputs_write(buf, ins.val.off,
                               restore_number(buf, lens + WORD_SIZE), <<>>),
                 lens))

\* `lens` is the position of the inputs, outputs and witnesses counts
tail_write(buf, off, lens) ==
    after_allocate(Sub(buf, lens, WORD_SIZE),
        tail_inputs(buf, Inputs_write(buf, off, restore_number(buf, lens), <<>>),
                    lens))

\* the Script assembled once its elements are decoded
Script_assemble(buf, off, script_len, script_data_len, tail) ==
    IF ~tail.ok THEN tail
    ELSE Ok([n |-> tail.val.off - off, tx |->
            [variant |-> "Script",
             gas_price |-> restore_number(buf, off + Script_gas_price_offset),
             gas_limit |-> restore_number(buf, off + Script_gas_limit_offset),
             maturity |-> restore_number(buf, off + Script_maturity_offset),
             receipts_root |-> Sub(buf, off + Script_receipts_root_offset, Bytes32_LEN),
             script |-> Sub(buf, off + Script_script_offset, script_len),
             script_data |->
                 Sub(buf, off + Script_script_offset + padded_len_usize(script_len),
                     script_data_len),
             inputs |-> tail.val.inputs, outputs |-> tail.val.outputs,
             witnesses |-> tail.val.witnesses]])

\* io::Write for Script on the bytes of buf from off on: Ok([n, tx]) or an error
Script_write(buf, off) ==
    LET avail == Len(buf) - off
        script_len == restore_number(buf, off + Script_maturity_offset + WORD_SIZE)
        script_data_len ==
            restore_number(buf, off + Script_maturity_offset + 2 * WORD_SIZE)
        oData == off + Script_script_offset + padded_len_usize(script_len)
        oInputs == oData + padded_len_usize(script_data_len)
    IN  IF avail < Script_script_offset THEN Eof
        ELSE IF script_len > avail \/ oData > Len(buf) THEN Eof
        ELSE IF script_data_len > avail \/ oInputs > Len(buf) THEN Eof
        ELSE Script_assemble(buf, off, script_len, script_data_len,
                 tail_write(buf, oInputs,
                            off + Script_maturity_offset + 3 * WORD_SIZE))

\* io::Read for Create
Create_read(t, buf_len) ==
    IF buf_len < Create_serialized_size(t) THEN Eof
    ELSE Ok([n |-> Create_serialized_size(t),
             bytes |->
                store_number(t.gas_price) \o store_number(t.gas_limit)
                \o store_number(t.maturity) \o store_number(t.bytecode_length)
                \o store_number(t.bytecode_witness_index)
                \o store_number(Len(t.storage_slots)) \o store_number(Len(t.inputs))
                \o store_number(Len(t.outputs)) \o store_number(Len(t.witnesses))
                \o t.salt
                \o Flatten([i \in 1..Len(t.storage_slots) |->
                               StorageSlot_read(t.storage_slots[i])])
                \o elements_bytes(t)])

\* the Create assembled once its storage slots and elements are decoded
Create_assemble(buf, off, slots, tail) ==
    IF ~tail.ok THEN tail
    ELSE Ok([n |-> tail.val.off - off, tx |->
            [variant |-> "Create",
             gas_price |-> restore_number(buf, off + Create_gas_price_offset),
             gas_limit |-> restore_number(buf, off + Create_gas_limit_offset),
             maturity |-> restore_number(buf, off + Create_maturity_offset),
             bytecode_length |->
                 restore_number(buf, off + Create_bytecode_length_offset),
             bytecode_witness_index |->
                 restore_u8(buf, off + Create_bytecode_witness_index_offset),
             salt |-> Sub(buf, off + Create_salt_offset, Bytes32_LEN),
             storage_slots |-> slots.val.items,
             inputs |-> tail.val.inputs, outputs |-> tail.val.outputs,
             witnesses |-> tail.val.witnesses]])

\* the Create write impl after its storage slots loop
Create_elements(buf, off, slots) ==
    IF ~slots.ok THEN slots
    ELSE Create_assemble(buf, off, slots,
             tail_write(buf, slots.val.off,
                        off + Create_bytecode_witness_index_offset + 2 * WORD_SIZE))

\* io::Write for Create
Create_write(buf, off) ==
    IF Len(buf) - off < Create_storage_slots_offset THEN Eof
    ELSE Create_elements(buf, off,
             StorageSlots_write(buf, off + Create_storage_slots_offset,
                 restore_u16(buf, off + Create_bytecode_witness_index_offset
                                      + WORD_SIZE),
                 <<>>))

TransactionRepr_Script == 0
TransactionRepr_Create == 1

\* io::Read for Transaction into a zeroed buffer of buf_len bytes:
\* Ok([n, buf]) with the whole buffer, or UnexpectedEof
Transaction_read(t, buf_len) ==
    IF buf_len < Transaction_serialized_size(t) THEN Eof
    ELSE LET body == IF t.variant = "Script"
                       THEN Script_read(t, buf_len - WORD_SIZE)
                       ELSE Create_read(t, buf_len - WORD_SIZE)
             tag == IF t.variant = "Script" THEN TransactionRepr_Script
                    ELSE TransactionRepr_Create
         IN  IF ~body.ok THEN body
             ELSE Ok([n |-> body.val.n,
                      buf |-> store_number(tag) \o body.val.bytes
                              \o Zeroes(buf_len - WORD_SIZE - Len(body.val.bytes))])

Transaction_write_as_script(buf) ==
    \* the identifier read and not dispatched on
    IF Len(buf) < WORD_SIZE THEN Eof ELSE Script_write(buf, WORD_SIZE)

\* io::Write for Transaction
Transaction_write(buf) ==
    IF Len(buf) < WORD_SIZE THEN Eof
    ELSE LET identifier == restore_number(buf, 0)
         IN  IF identifier = TransactionRepr_Script THEN Script_write(buf, WORD_SIZE)
             ELSE IF identifier = TransactionRepr_Create THEN Create_write(buf, WORD_SIZE)
             ELSE InvalidData

try_from_bytes(bytes) == Transaction_write(bytes)

\* ------------------------------------------------------ canonical codec
\* (io.rs and the derive macros).  A type is a descriptor record, a value
\* carries its type:
\*   [type |-> "u8" / "u16" / "u32" / "u64"]      v |-> the number
\*   [type |-> "bytes", n |-> N]                   v |-> N bytes (Bytes4 ..)
\*   [type |-> "vec", elem |-> T]                  elems |-> the elements
\*   [type |-> "array", n |-> N, elem |-> T]       elems |-> N elements
\*   [type |-> "option"]                           Option<T>
\*   [type |-> "struct", fields |-> <<T ..>>]      fields |-> the values
\*   [type |-> "enum", variants |-> <<<<T ..>> ..>>]
\*                                   ordinal |-> i, fields |-> the values

ALIGN == 8

\* a padding that is never written
fill_bytes_none(len) == 0

fill_bytes(len) == (ALIGN - (len % ALIGN)) % ALIGN

Primitives == {"u8", "u16", "u32", "u64"}

\* core::mem::size_of of a primitive
size_of(type) ==
    CASE type = "u8" -> 1 [] type = "u16" -> 2 [] type = "u32" -> 4 [] type = "u64" -> 8

\* <$t>::to_be_bytes: the size_of bytes of v, most significant first
be_bytes(v, n) ==
    [i \in 1..n |-> IF n - i >= 4 THEN 0 ELSE (v \div (256^(n - i))) % 256]

\* <$t>::from_be_bytes; a value beyond the range the model holds is HugeWord
RECURSIVE be_value(_)
be_value(bytes) ==
    IF Len(bytes) > 4
      THEN IF bytes[1] # 0 THEN HugeWord ELSE be_value(Tail(bytes))
    ELSE IF Len(bytes) = 4 /\ bytes[1] >= 128 THEN HugeWord
    ELSE IF Len(bytes) = 0 THEN 0
    ELSE bytes[1] * 256^(Len(bytes) - 1) + be_value(Tail(bytes))

BufferItTooShort == Err("BufferItTooShort")
UnknownDiscriminant == Err("UnknownDiscriminant")
WrongAlign == Err("WrongAlign")

Prim(type, v) == [type |-> type, v |-> v]
T_prim(type) == [type |-> type]
T_bytes(n) == [type |-> "bytes", n |-> n]
T_vec(elem) == [type |-> "vec", elem |-> elem]
T_array(n, elem) == [type |-> "array", n |-> n, elem |-> elem]
T_option == [type |-> "option"]
T_struct(fields) == [type |-> "struct", fields |-> fields]
T_enum(variants) == [type |-> "enum", variants |-> variants]

\* impl_for_primitives: encode_static
primitive_encode_static(x) ==
    be_bytes(x.v, size_of(x.type)) \o Zeroes(fill_bytes(size_of(x.type)))

\* the same with the value in the last size_of bytes of the word
primitive_encode_right_justified(x) ==
    Zeroes(fill_bytes(size_of(x.type))) \o be_bytes(x.v, size_of(x.type))

RECURSIVE encode_static(_), encode_dynamic(_), encode(_)

\* Serialize::encode_static of every implementation
encode_static(x) ==
    CASE x.type \in Primitives -> primitive_encode_static(x)
      [] x.type = "bytes" -> x.v \o Zeroes(fill_bytes(Len(x.v)))
      [] x.type = "option" -> <<>>
      [] x.type = "vec" -> primitive_encode_static(Prim("u64", Len(x.elems)))
      [] x.type = "array" ->
            IF x.elem.type = "u8"
              THEN [i \in 1..Len(x.elems) |-> x.elems[i].v]
                       \o Zeroes(fill_bytes(Len(x.elems)))
              ELSE Flatten([i \in 1..Len(x.elems) |-> encode_static(x.elems[i])])
      [] x.type = "struct" ->
            Flatten([i \in 1..Len(x.fields) |-> encode_static(x.fields[i])])
      [] x.type = "enum" ->
            primitive_encode_static(Prim("u8", x.ordinal))
                \o Flatten([i \in 1..Len(x.fields) |-> encode_static(x.fields[i])])

\* Serialize::encode_dynamic
encode_dynamic(x) ==
    CASE x.type = "vec" ->
            IF x.elem.type = "u8"
              THEN [i \in 1..Len(x.elems) |-> x.elems[i].v]
                       \o Zeroes(fill_bytes(Len(x.elems)))
              ELSE Flatten([i \in 1..Len(x.elems) |-> encode(x.elems[i])])
      [] x.type = "array" ->
            IF x.elem.type \notin Primitives
              THEN Flatten([i \in 1..Len(x.elems) |-> encode_dynamic(x.elems[i])])
              ELSE <<>>
      [] x.type \in {"struct", "enum"} ->
            Flatten([i \in 1..Len(x.fields) |-> encode_dynamic(x.fields[i])])
      [] OTHER -> <<>>

\* the bytes Serialize::encode writes: the static part, then the dynamic part
encode(x) == encode_static(x) \o encode_dynamic(x)

\* Serialize::size: 0 for Option, else the count of the bytes encode writes
size(x) == IF x.type = "option" THEN 0 ELSE Len(encode(x))

\* the derived encode refuses a field whose size is not a multiple of ALIGN
RECURSIVE wrong_align(_)
wrong_align(x) ==
    CASE x.type \in {"struct", "enum"} ->
            \E i \in 1..Len(x.fields) :
                size(x.fields[i]) % ALIGN > 0 \/ wrong_align(x.fields[i])
      [] x.type \in {"vec", "array"} ->
            \E i \in 1..Len(x.elems) : wrong_align(x.elems[i])
      [] OTHER -> FALSE

\* Serialize::to_bytes / encode into a Vec<u8>
Serialize_encode(x) == IF wrong_align(x) THEN WrongAlign ELSE Ok(encode(x))

\* impl_for_primitives: decode_static at a position of the input; Ok([v, off])
primitive_decode_static(type, buf, off) ==
    IF size_of(type) > Len(buf) - off THEN BufferItTooShort
    ELSE IF fill_bytes(size_of(type)) > Len(buf) - off - size_of(type)
      THEN BufferItTooShort
    ELSE Ok([v |-> Prim(type, be_value(Sub(buf, off, size_of(type)))),
             off |-> off + size_of(type) + fill_bytes(size_of(type))])

\* the bytes read, then the padding skipped
bytes_decode_static(n, buf, off) ==
    IF n > Len(buf) - off THEN BufferItTooShort
    ELSE IF fill_bytes(n) > Len(buf) - off - n THEN BufferItTooShort
    ELSE Ok([v |-> Sub(buf, off, n), off |-> off + n + fill_bytes(n)])

RECURSIVE decode_static(_, _, _), decode_fields_static(_, _, _, _)
RECURSIVE decode_dynamic(_, _, _), decode_fields_dynamic(_, _, _, _)
RECURSIVE decode_elements(_, _, _, _, _)

\* an enum decoder that takes the first variant for a tag it does not know
enum_decode_static_default(ty, tag, buf, off) ==
    LET ordinal == IF tag.v.v < Len(ty.variants) THEN tag.v.v ELSE 0
        fields == decode_fields_static(ty.variants[ordinal + 1], buf, tag.off, <<>>)
    IN  IF ~fields.ok THEN fields
        ELSE Ok([v |-> [type |-> "enum", variants |-> ty.variants,
                        ordinal |-> ordinal, fields |-> fields.val.v],
                 off |-> fields.val.off])

\* the derived decode_static of an enum once the tag word is read: a tag
\* that names no variant is an error
enum_decode_static(ty, tag, buf, off) ==
    IF tag.v.v < Len(ty.variants)
      THEN LET fields == decode_fields_static(ty.variants[tag.v.v + 1], buf,
                                              tag.off, <<>>)
           IN  IF ~fields.ok THEN fields
               ELSE Ok([v |-> [type |-> "enum", variants |-> ty.variants,
                               ordinal |-> tag.v.v, fields |-> fields.val.v],
                        off |-> fields.val.off])
      ELSE UnknownDiscriminant

\* Deserialize::decode_static of every implementation; Ok([v, off])
decode_static(ty, buf, off) ==
    CASE ty.type \in Primitives -> primitive_decode_static(ty.type, buf, off)
      [] ty.type = "bytes" ->
            LET r == bytes_decode_static(ty.n, buf, off)
            IN  IF ~r.ok THEN r
                ELSE Ok([v |-> [type |-> "bytes", n |-> ty.n, v |-> r.val.v],
                         off |-> r.val.off])
      [] ty.type = "option" -> Ok([v |-> T_option, off |-> off])
      [] ty.type = "vec" ->
            LET cap == primitive_decode_static("u64", buf, off)
            IN  IF ~cap.ok THEN cap
                ELSE after_allocate(Sub(buf, off, WORD_SIZE),
                         Ok([v |-> [type |-> "vec", elem |-> ty.elem,
                                    cap |-> cap.val.v.v, elems |-> <<>>],
                             off |-> cap.val.off]))
      [] ty.type = "array" ->
            IF ty.elem.type = "u8"
              THEN LET r == bytes_decode_static(ty.n, buf, off)
                   IN  IF ~r.ok THEN r
                       ELSE Ok([v |-> [type |-> "array", n |-> ty.n, elem |-> ty.elem,
                                       elems |-> [i \in 1..ty.n |->
                                                     Prim("u8", r.val.v[i])]],
                                off |-> r.val.off])
              ELSE LET r == decode_fields_static([i \in 1..ty.n |-> ty.elem],
                                                 buf, off, <<>>)
                   IN  IF ~r.ok THEN r
                       ELSE Ok([v |-> [type |-> "array", n |-> ty.n, elem |-> ty.elem,
                                       elems |-> r.val.v],
                                off |-> r.val.off])
      [] ty.type = "struct" ->
            LET r == decode_fields_static(ty.fields, buf, off, <<>>)
            IN  IF ~r.ok THEN r
                ELSE Ok([v |-> [type |-> "struct", fields |-> r.val.v],
                         off |-> r.val.off])
      [] ty.type = "enum" ->
            LET tag == primitive_decode_static("u64", buf, off)
            IN  IF ~tag.ok THEN tag ELSE enum_decode_static(ty, tag.val, buf, off)

\* the static parts of the fields, one after the other
decode_fields_static(tys, buf, off, acc) ==
    IF Len(tys) = 0 THEN Ok([v |-> acc, off |-> off])
    ELSE LET r == decode_static(Head(tys), buf, off)
         IN  IF ~r.ok THEN r
             ELSE decode_fields_static(Tail(tys), buf, r.val.off, Append(acc, r.val.v))

\* the loop of Vec<T>::decode_dynamic: `left` elements to go
decode_elements(elem, left, buf, off, acc) ==
    IF left = 0 THEN Ok([v |-> acc, off |-> off])
    ELSE IF elem.type = "u8"
      THEN IF 1 > Len(buf) - off THEN BufferItTooShort
           ELSE decode_elements(elem, left - 1, buf, off + 1,
                                Append(acc, Prim("u8", buf[off + 1])))
    ELSE LET s == decode_static(elem, buf, off)
         IN  IF ~s.ok THEN s
             ELSE LET d == decode_dynamic(s.val.v, buf, s.val.off)
                  IN  IF ~d.ok THEN d
                      ELSE decode_elements(elem, left - 1, buf, d.val.off,
                                           Append(acc, d.val.v))

\* Deserialize::decode_dynamic: fills the value whose static part was read
decode_dynamic(x, buf, off) ==
    CASE x.type = "vec" ->
            LET r == decode_elements(x.elem, x.cap, buf, off, <<>>)
            IN  IF ~r.ok THEN r
                ELSE IF x.elem.type = "u8" /\ fill_bytes(x.cap) > Len(buf) - r.val.off
                  THEN BufferItTooShort
                ELSE Ok([v |-> [type |-> "vec", elem |-> x.elem, elems |-> r.val.v],
                         off |-> IF x.elem.type = "u8"
                                   THEN r.val.off + fill_bytes(x.cap)
                                   ELSE r.val.off])
      [] x.type = "array" ->
            IF x.elem.type \notin Primitives
              THEN LET r == decode_fields_dynamic(x.elems, buf, off, <<>>)
                   IN  IF ~r.ok THEN r
                       ELSE Ok([v |-> [x EXCEPT !.elems = r.val.v], off |-> r.val.off])
              ELSE Ok([v |-> x, off |-> off])
      [] x.type \in {"struct", "enum"} ->
            LET r == decode_fields_dynamic(x.fields, buf, off, <<>>)
            IN  IF ~r.ok THEN r
                ELSE Ok([v |-> [x EXCEPT !.fields = r.val.v], off |-> r.val.off])
      [] OTHER -> Ok([v |-> x, off |-> off])

\* the dynamic parts of the fields, one after the other
decode_fields_dynamic(xs, buf, off, acc) ==
    IF Len(xs) = 0 THEN Ok([v |-> acc, off |-> off])
    ELSE LET r == decode_dynamic(Head(xs), buf, off)
         IN  IF ~r.ok THEN r
             ELSE decode_fields_dynamic(Tail(xs), buf, r.val.off, Append(acc, r.val.v))

\* Deserialize::decode on a byte slice: Ok([v, off]) with the bytes consumed
decode(ty, buf) ==
    LET s == decode_static(ty, buf, 0)
    IN  IF ~s.ok THEN s ELSE decode_dynamic(s.val.v, buf, s.val.off)

\* the layouts of the derived types

T_Bytes32 == T_bytes(Bytes32_LEN)
T_Word == T_prim("u64")

\* UtxoId { tx_id, output_index }
T_UtxoId == T_struct(<<T_Bytes32, T_prim("u8")>>)

\* TxPointer { block_height: u32, tx_index: u16 }
T_TxPointer == T_struct(<<T_prim("u32"), T_prim("u16")>>)

\* enum Output
T_Output ==
    T_enum(<< <<T_Bytes32, T_Word, T_Bytes32>>,
              <<T_prim("u8"), T_Bytes32, T_Bytes32>>,
              <<T_Bytes32, T_Word>>,
              <<T_Bytes32, T_Word, T_Bytes32>>,
              <<T_Bytes32, T_Word, T_Bytes32>>,
              <<T_Bytes32, T_Bytes32>> >>)

\* enum InputSpec
T_InputSpec ==
    T_enum(<< <<T_UtxoId, T_Bytes32, T_Word, T_Bytes32, T_TxPointer,
                T_prim("u8"), T_Word, T_vec(T_prim("u8")), T_vec(T_prim("u8"))>>,
              <<T_UtxoId, T_Bytes32, T_Bytes32, T_TxPointer, T_Bytes32>>,
              <<T_Bytes32, T_Bytes32, T_Bytes32, T_Word, T_Word, T_prim("u8"),
                T_vec(T_prim("u8")), T_vec(T_prim("u8")), T_vec(T_prim("u8"))>> >>)

\* Deserialize for Input: InputSpec::decode, then the conversion
Input_decode(buf) == decode(T_InputSpec, buf)

Output_decode(buf) == decode(T_Output, buf)

\* the type of a value
RECURSIVE type_of(_)
type_of(x) ==
    CASE x.type \in Primitives -> T_prim(x.type)
      [] x.type = "bytes" -> T_bytes(Len(x.v))
      [] x.type = "option" -> T_option
      [] x.type = "vec" -> T_vec(x.elem)
      [] x.type = "array" -> T_array(Len(x.elems), x.elem)
      [] x.type = "struct" -> T_struct([i \in 1..Len(x.fields) |-> type_of(x.fields[i])])
      [] x.type = "enum" -> T_enum(x.variants)

\* ---------------------------------------------------- UtxoId text form
\* (utxo_id.rs).  A string is the sequence of its ASCII codes.

Chr_0 == 48
Chr_9 == 57
Chr_A == 65
Chr_F == 70
Chr_a == 97
Chr_f == 102
Chr_x == 120

Prefix0x == <<Chr_0, Chr_x>>

InvalidEncodedByte == Err("Invalid encoded byte")

\* one hex digit of {:x} / {:X}
hex_digit(n, upper) ==
    IF n < 10 THEN Chr_0 + n ELSE IF upper THEN Chr_A + n - 10 ELSE Chr_a + n - 10

\* {:02x} / {:02X} of a u8
fmt_02x(b, upper) == <<hex_digit(b \div 16, upper), hex_digit(b % 16, upper)>>

\* LowerHex / UpperHex for Bytes32: "0x" when alternate, then two digits a byte
Bytes32_fmt(bytes, upper, alternate) ==
    (IF alternate THEN Prefix0x ELSE <<>>)
        \o Flatten([i \in 1..Len(bytes) |-> fmt_02x(bytes[i], upper)])

\* LowerHex / UpperHex for UtxoId
UtxoId_fmt(utxo_id, upper, alternate) ==
    IF alternate
      THEN Bytes32_fmt(utxo_id.tx_id, upper, FALSE) \o fmt_02x(utxo_id.output_index, upper)
      ELSE Bytes32_fmt(utxo_id.tx_id, upper, TRUE) \o fmt_02x(utxo_id.output_index, upper)

hex_val(c) ==
    IF c >= Chr_A /\ c <= Chr_F THEN Some(c - Chr_A + 10)
    ELSE IF c >= Chr_a /\ c <= Chr_f THEN Some(c - Chr_a + 10)
    ELSE IF c >= Chr_0 /\ c <= Chr_9 THEN Some(c - Chr_0)
    ELSE None

starts_with_0x(s) == Len(s) >= 2 /\ SubSeq(s, 1, 2) = Prefix0x

\* the digit at position i of s, if there is one and it is a hex digit
hex_at(s, i) == IF i <= Len(s) THEN hex_val(s[i]) ELSE None

\* FromStr for Bytes32: 32 pairs of hex digits after an optional "0x"; `exact`
\* tells whether the build's fuel_types refuses characters after the 64th
Bytes32_from_str(s, exact) ==
    LET start == IF starts_with_0x(s) THEN 2 ELSE 0
        pairs == [i \in 1..Bytes32_LEN |->
                     <<hex_at(s, start + 2 * i - 1), hex_at(s, start + 2 * i)>>]
    IN  IF \E i \in 1..Bytes32_LEN : ~pairs[i][1].some \/ ~pairs[i][2].some
          THEN InvalidEncodedByte
        ELSE IF exact /\ Len(s) # start + 2 * Bytes32_LEN THEN InvalidEncodedByte
        ELSE Ok([i \in 1..Bytes32_LEN |-> pairs[i][1].v * 16 + pairs[i][2].v])

\* FromStr for UtxoId
UtxoId_from_str(str, exact) ==
    LET alternate == starts_with_0x(str)
        s == IF alternate THEN SubSeq(str, 3, Len(str)) ELSE str
    IN  IF Len(s) = 0 THEN Ok(UtxoId_new(Zeroes(Bytes32_LEN), 0))
        ELSE LET tx_id == Bytes32_from_str(SubSeq(s, 1, Len(s) - 1), exact)
                 output_index == hex_val(s[Len(s)])
             IN  IF ~tx_id.ok THEN tx_id
                 ELSE IF ~output_index.some THEN InvalidEncodedByte
                 ELSE Ok(UtxoId_new(tx_id.val, output_index.v))

\* ------------------------------------------------- the fee specification

FeeGasPerByte == {0, 1, 2, 3}
FeeFactor     == {1, 2, 3}
FeeMetered    == {0, 1, 5, 2^(WordBits - 1), WORD_MAX}
FeeGasLimit   == {0, 1, 7, WORD_MAX}
FeeGasPrice   == {0, 1, 2, 11, WORD_MAX}

\* Opcode::RET(0x10), the script of the default transaction
RetScript == <<36, 64, 0, 0>>

\* the scaled ConsensusParameters, one per gas price factor
Params(factor) ==
    [gas_price_factor |-> factor, gas_per_byte |-> 2, max_gas_per_tx |-> 100,
     max_inputs |-> 2, max_outputs |-> 2, max_witnesses |-> 2,
     max_script_length |-> 8, max_script_data_length |-> 8,
     max_predicate_length |-> 8, max_predicate_data_length |-> 8,
     max_message_data_length |-> 8, contract_max_size |-> 16,
     max_storage_slots |-> 2]

Transaction_default ==
    Transaction_script(0, Params(1).max_gas_per_tx, 0, RetScript, <<>>,
                       <<>>, <<>>, <<>>)

FeeUnused == fee_in = Idle /\ fee_out = Idle
CodecUnused == wire = Idle /\ decoded = Idle /\ read_len = 0
ValidateUnused == validated = Idle
CanonUnused == canon_in = Idle /\ canon_out = Idle
TextUnused == text_in = Idle /\ text_out = Idle
DupUnused == dup_in = Idle /\ dup_out = Idle
AllocServes == alloc_fails = FALSE
BuildUnused == built = Idle
CheckUnused ==
    /\ tx = Transaction_default
    /\ byte_price = 0
    /\ check_args = Idle
    /\ checked = Idle

FeeInit ==
    /\ CheckUnused
    /\ CodecUnused
    /\ BuildUnused
    /\ ValidateUnused
    /\ CanonUnused
    /\ TextUnused
    /\ DupUnused
    /\ AllocServes
    /\ fee_in \in [gas_per_byte : FeeGasPerByte, gas_price_factor : FeeFactor,
                   metered_bytes : FeeMetered, gas_limit : FeeGasLimit,
                   gas_price : FeeGasPrice]
    /\ fee_out = Idle

FromValues ==
    /\ fee_out = Idle
    /\ fee_out' = from_values(fee_in.gas_per_byte, fee_in.gas_price_factor,
                              fee_in.metered_bytes, fee_in.gas_limit, fee_in.gas_price)
    /\ UNCHANGED <<read_len, built, alloc_fails, text_in, text_out, dup_in, dup_out, fee_in, tx, byte_price, check_args, checked, wire, decoded, validated, canon_in, canon_out>>

FeeNext == FromValues

SpecFee == FeeInit /\ [][FeeNext]_vars

\* --------------------------------------------- the check specification

MaxInputs == 2
MaxOutputs == 2

Owner1 == B32(1)
Owner2 == B32(2)
AssetA == B32(7)
NoPointer == TxPointer_new(0, 0)
Predicate1 == <<1, 2, 3>>
Bytecode8 == <<9, 9, 9, 9, 9, 9, 9, 9>>

CheckInputs ==
    { Input_coin_signed(UtxoId_new(B32(1), 0), Owner1, 50, AssetId_BASE, NoPointer, 0, 0),
      Input_coin_signed(UtxoId_new(B32(2), 0), Owner1, WORD_MAX, AssetId_BASE, NoPointer, 0, 0),
      Input_coin_signed(UtxoId_new(B32(3), 0), Owner1, 1, AssetId_BASE, NoPointer, 0, 0),
      Input_coin_signed(UtxoId_new(B32(4), 0), Owner1, 50, AssetA, NoPointer, 0, 0),
      Input_coin_predicate(UtxoId_new(B32(5), 0), predicate_owner(Predicate1), WORD_MAX,
                           AssetA, NoPointer, 0, Predicate1, <<>>),
      Input_coin_signed(UtxoId_new(B32(6), 0), Owner1, 50, AssetId_BASE, NoPointer, 1, 0),
      Input_coin_signed(UtxoId_new(B32(7), 0), Owner2, 50, AssetId_BASE, NoPointer, 0, 0),
      Input_message_signed(B32(9), Owner2, Owner1, 50, 0, 0, <<>>),
      Input_contract(UtxoId_new(B32(8), 0), B32(0), B32(0), NoPointer, B32(3)) }

CheckOutputs ==
    { Output_coin(Owner2, 46, AssetId_BASE),
      Output_coin(Owner2, 47, AssetId_BASE),
      Output_coin(Owner2, 50, AssetA),
      Output_coin(Owner2, 1, AssetA),
      Output_change(Owner1, 0, AssetId_BASE),
      Output_contract(0, B32(0), B32(0)),
      Output_contract_created(B32(4), B32(0)) }

\* <<gas_price, gas_limit, byte_price, maturity>>
ScriptHeaders ==
    { <<0, 0, 0, 0>>, <<1, 3, 0, 0>>, <<0, 0, 1, 0>>, <<205, 5, 0, 0>>,
      <<WORD_MAX, 2, 0, 0>>, <<0, 0, WORD_MAX, 0>>, <<205, 5, 15, 0>>,
      <<1, 3, 0, 2>>, <<1, 101, 0, 0>> }

CreateHeaders == { <<0, 0, 0, 0>>, <<1, 3, 0, 0>> }

\* <<block_height, gas_price_factor>>
CheckArgs == { <<0, 1>>, <<2, 1>>, <<2, 3>> }

CheckInit ==
    /\ FeeUnused
    /\ CodecUnused
    /\ BuildUnused
    /\ ValidateUnused
    /\ CanonUnused
    /\ TextUnused
    /\ DupUnused
    /\ AllocServes
    /\ check_args = Idle
    /\ checked = Idle
    /\ \/ \E h \in ScriptHeaders :
            /\ tx = Transaction_script(h[1], h[2], h[4], RetScript, <<>>,
                                       <<>>, <<>>, <<Signature_by(1)>>)
            /\ byte_price = h[3]
       \/ \E h \in CreateHeaders :
            /\ tx = Transaction_create(h[1], h[2], h[4], 1, B32(5), <<>>,
                                       <<>>, <<>>, <<Signature_by(1), Bytecode8>>)
            /\ byte_price = h[3]

\* inputs_mut().push(input)
PushInput ==
    /\ checked = Idle
    /\ Len(tx.inputs) < MaxInputs
    /\ \E input \in CheckInputs : tx' = [tx EXCEPT !.inputs = Append(@, input)]
    /\ UNCHANGED <<read_len, built, alloc_fails, text_in, text_out, dup_in, dup_out, byte_price, check_args, checked, fee_in, fee_out, wire, decoded, validated, canon_in, canon_out>>

\* outputs_mut().push(output)
PushOutput ==
    /\ checked = Idle
    /\ Len(tx.outputs) < MaxOutputs
    /\ \E output \in CheckOutputs : tx' = [tx EXCEPT !.outputs = Append(@, output)]
    /\ UNCHANGED <<read_len, built, alloc_fails, text_in, text_out, dup_in, dup_out, byte_price, check_args, checked, fee_in, fee_out, wire, decoded, validated, canon_in, canon_out>>

\* CheckedTransaction::check(transaction, block_height, params)
Check ==
    /\ checked = Idle
    /\ \E a \in CheckArgs, overflow_checks \in BOOLEAN :
          /\ check_args' = [block_height |-> a[1], params |-> Params(a[2])]
          /\ checked' = check(tx, byte_price, a[1], Params(a[2]), overflow_checks)
    /\ UNCHANGED <<read_len, built, alloc_fails, text_in, text_out, dup_in, dup_out, tx, byte_price, fee_in, fee_out, wire, decoded, validated, canon_in, canon_out>>

CheckNext == PushInput \/ PushOutput \/ Check

SpecCheck == CheckInit /\ [][CheckNext]_vars

\* --------------------------------------------- the codec specification

Predicate2 == <<4, 5, 6, 7, 8, 9, 10, 11>>
Slot1 == StorageSlot_new(B32(1), B32(200))
Slot2 == StorageSlot_new(B32(2), B32(0))

CodecInputs ==
    { Input_coin_signed(UtxoId_new(B32(1), 3), Owner1, 300, AssetId_BASE,
                        TxPointer_new(70000, 258), 0, 0),
      Input_coin_predicate(UtxoId_new(B32(5), 0), predicate_owner(Predicate1), WORD_MAX,
                           AssetA, NoPointer, 0, Predicate1, <<7>>),
      Input_coin_predicate(UtxoId_new(B32(6), 0), predicate_owner(<<>>), 9,
                           AssetA, NoPointer, 0, <<>>, <<7>>),
      Input_contract(UtxoId_new(B32(8), 1), B32(11), B32(12), TxPointer_new(1, 1),
                     B32(3)),
      Input_message_signed(B32(9), Owner2, Owner1, 50, 513, 0, <<1, 2, 3, 4, 5>>),
      Input_message_predicate(B32(10), Owner2, predicate_owner(Predicate2), 50, 1,
                              <<1>>, Predicate2, <<>>) }

CodecOutputs ==
    { Output_coin(Owner2, 46, AssetId_BASE),
      Output_contract(0, B32(21), B32(22)),
      Output_message(Owner2, 260),
      Output_change(Owner1, 0, AssetId_BASE),
      Output_variable(Owner1, 0, AssetA),
      Output_contract_created(B32(4), B32(0)) }

\* the block height and parameters a transaction is validated against
CodecBlockHeight == 2
CodecParams == Params(1)

CodecInit ==
    /\ FeeUnused
    /\ CodecUnused
    /\ BuildUnused
    /\ ValidateUnused
    /\ CanonUnused
    /\ TextUnused
    /\ DupUnused
    /\ AllocServes
    /\ byte_price = 0
    /\ check_args = Idle
    /\ checked = Idle
    /\ \/ tx = Transaction_default
       \/ tx = Transaction_script(WORD_MAX, 3, 1, RetScript, <<1, 2, 3>>,
                                  <<>>, <<>>, <<Signature_by(1)>>)
       \/ tx = Transaction_create(1, 3, 2, 1, B32(5), <<>>,
                                  <<>>, <<>>, <<Signature_by(1), Bytecode8>>)
       \/ tx = Transaction_create(0, 0, 0, 0, B32(5), <<Slot1, Slot2>>,
                                  <<>>, <<>>, <<Bytecode8, Signature_by(1)>>)

\* inputs_mut().push(input)
CodecPushInput ==
    /\ wire = Idle
    /\ Len(tx.inputs) < MaxInputs
    /\ \E input \in CodecInputs : tx' = [tx EXCEPT !.inputs = Append(@, input)]
    /\ UNCHANGED <<read_len, built, alloc_fails, text_in, text_out, dup_in, dup_out, byte_price, check_args, checked, fee_in, fee_out, wire, decoded, validated, canon_in, canon_out>>

\* outputs_mut().push(output)
CodecPushOutput ==
    /\ wire = Idle
    /\ Len(tx.outputs) < MaxOutputs
    /\ \E output \in CodecOutputs : tx' = [tx EXCEPT !.outputs = Append(@, output)]
    /\ UNCHANGED <<read_len, built, alloc_fails, text_in, text_out, dup_in, dup_out, byte_price, check_args, checked, fee_in, fee_out, wire, decoded, validated, canon_in, canon_out>>

\* the lengths of the buffer handed to read, relative to serialized_size()
CodecExtraBytes == {-1, 0, WORD_SIZE - 1, WORD_SIZE, 2 * WORD_SIZE}

\* tx.read(&mut buf) on a zeroed buffer of the transaction's serialized size,
\* of a byte less, or of up to two words more
Serialize ==
    /\ wire = Idle
    /\ \E extra \in CodecExtraBytes :
          /\ read_len' = Transaction_serialized_size(tx) + extra
          /\ wire' = Transaction_read(tx, Transaction_serialized_size(tx) + extra)
    /\ UNCHANGED <<built, alloc_fails, text_in, text_out, dup_in, dup_out, tx, byte_price, check_args, checked, fee_in, fee_out, decoded, validated, canon_in, canon_out>>

\* Transaction::try_from_bytes(&buf) on the buffer that was written
Deserialize ==
    /\ wire # Idle
    /\ wire.ok
    /\ decoded = Idle
    /\ decoded' = try_from_bytes(wire.val.buf)
    /\ UNCHANGED <<read_len, built, alloc_fails, text_in, text_out, dup_in, dup_out, tx, byte_price, check_args, checked, fee_in, fee_out, wire, validated, canon_in, canon_out>>

CodecNext == CodecPushInput \/ CodecPushOutput \/ Serialize \/ Deserialize

SpecCodec == CodecInit /\ [][CodecNext]_vars

\* ---------------------------------------- the validation specification

MaxWitnesses == 3

Utxo1 == UtxoId_new(B32(1), 0)
Utxo2 == UtxoId_new(B32(2), 0)
Address_zeroed == Zeroes(Bytes32_LEN)

\* a slot with the key of Slot1 and another value
Slot1b == StorageSlot_new(B32(1), B32(7))

ValidateInputs ==
    { Input_coin_signed(Utxo1, Owner1, 50, AssetId_BASE, NoPointer, 0, 0),
      Input_coin_signed(Utxo1, Owner2, 9, AssetA, NoPointer, 0, 0),
      Input_coin_signed(Utxo2, Owner1, 1, AssetA, NoPointer, 0, 0),
      Input_contract(Utxo1, B32(0), B32(0), NoPointer, B32(3)),
      Input_contract(Utxo1, B32(0), B32(0), NoPointer, B32(4)),
      Input_message_signed(B32(9), Owner2, Owner1, 50, 0, 0, <<>>) }

ValidateOutputs ==
    { Output_coin(Owner2, 1, AssetId_BASE),
      Output_contract(0, B32(0), B32(0)),
      Output_contract(1, B32(0), B32(0)),
      Output_message(Address_zeroed, 0),
      Output_message(Owner2, 0),
      Output_message(Address_zeroed, 5),
      Output_change(Owner1, 0, AssetId_BASE),
      Output_change(Owner2, 0, AssetA),
      Output_variable(Owner1, 0, AssetA),
      Output_contract_created(B32(4), B32(0)) }

\* <<gas_limit, maturity>>
ValidateHeaders == { <<3, 0>>, <<101, 0>>, <<3, 3>> }

ValidateSlots ==
    { <<>>, <<Slot1, Slot2>>, <<Slot2, Slot1>>, <<Slot1, Slot1b>>, <<Slot2, Slot2>> }

ValidateInit ==
    /\ FeeUnused
    /\ CodecUnused
    /\ BuildUnused
    /\ ValidateUnused
    /\ CanonUnused
    /\ TextUnused
    /\ DupUnused
    /\ AllocServes
    /\ byte_price = 0
    /\ check_args = Idle
    /\ checked = Idle
    /\ \/ \E h \in ValidateHeaders :
            tx = Transaction_script(0, h[1], h[2], RetScript, <<>>,
                                    <<>>, <<>>, <<Signature_by(1)>>)
       \/ \E slots \in ValidateSlots :
            tx = Transaction_create(0, 3, 0, 1, B32(5), slots,
                                    <<>>, <<>>, <<Signature_by(1), Bytecode8>>)

\* inputs_mut().push(input)
ValidatePushInput ==
    /\ validated = Idle
    /\ Len(tx.inputs) < MaxInputs
    /\ \E input \in ValidateInputs : tx' = [tx EXCEPT !.inputs = Append(@, input)]
    /\ UNCHANGED <<read_len, built, alloc_fails, text_in, text_out, dup_in, dup_out, byte_price, check_args, checked, fee_in, fee_out, wire, decoded, validated, canon_in, canon_out>>

\* outputs_mut().push(output)
ValidatePushOutput ==
    /\ validated = Idle
    /\ Len(tx.outputs) < MaxOutputs
    /\ \E output \in ValidateOutputs : tx' = [tx EXCEPT !.outputs = Append(@, output)]
    /\ UNCHANGED <<read_len, built, alloc_fails, text_in, text_out, dup_in, dup_out, byte_price, check_args, checked, fee_in, fee_out, wire, decoded, validated, canon_in, canon_out>>

\* witnesses_mut().push(witness)
PushWitness ==
    /\ validated = Idle
    /\ Len(tx.witnesses) < MaxWitnesses
    /\ tx' = [tx EXCEPT !.witnesses = Append(@, Signature_by(2))]
    /\ UNCHANGED <<read_len, built, alloc_fails, text_in, text_out, dup_in, dup_out, byte_price, check_args, checked, fee_in, fee_out, wire, decoded, validated, canon_in, canon_out>>

\* tx.validate_without_signature(block_height, &params)
ValidateWithoutSignature ==
    /\ validated = Idle
    /\ validated' = [op |-> "validate_without_signature",
                     result |-> validate_without_signature(
                                    tx, CodecBlockHeight, CodecParams)]
    /\ UNCHANGED <<read_len, built, alloc_fails, text_in, text_out, dup_in, dup_out, tx, byte_price, check_args, checked, fee_in, fee_out, wire, decoded, canon_in, canon_out>>

\* output.validate(index, tx.inputs()) for the output at position index
ValidateOutput ==
    /\ validated = Idle
    /\ \E index \in 0..(Len(tx.outputs) - 1) :
          validated' = [op |-> "Output::validate", index |-> index,
                        result |-> Output_validate(tx.outputs[index + 1], index,
                                                   tx.inputs)]
    /\ UNCHANGED <<read_len, built, alloc_fails, text_in, text_out, dup_in, dup_out, tx, byte_price, check_args, checked, fee_in, fee_out, wire, decoded, canon_in, canon_out>>

ValidateNext ==
    \/ ValidatePushInput
    \/ ValidatePushOutput
    \/ PushWitness
    \/ ValidateWithoutSignature
    \/ ValidateOutput

SpecValidate == ValidateInit /\ [][ValidateNext]_vars

\* --------------------------------------- the canonical-codec specification

MaxBytes == 9

U8(v) == Prim("u8", v)
U16(v) == Prim("u16", v)
U32(v) == Prim("u32", v)
U64(v) == Prim("u64", v)
Bytes(v) == [type |-> "bytes", n |-> Len(v), v |-> v]
Vec(elem, elems) == [type |-> "vec", elem |-> elem, elems |-> elems]
Array(elem, elems) == [type |-> "array", n |-> Len(elems), elem |-> elem, elems |-> elems]
OptionNone == T_option
Struct(fields) == [type |-> "struct", fields |-> fields]
Enum(ty, ordinal, fields) == [type |-> "enum", variants |-> ty.variants, ordinal |-> ordinal, fields |-> fields]

Counting(n) == [i \in 1..n |-> i]
VecU8(n) == Vec(T_prim("u8"), [i \in 1..n |-> U8(i)])

CanonScalars ==
    { U8(v) : v \in {0, 1, 127, 255} }
        \cup { U16(v) : v \in {0, 1, 258, 65535} }
        \cup { U32(v) : v \in {0, 1, 66051, 2147483647} }
        \cup { U64(v) : v \in {0, 1, 4095, 66051} }

CanonByteArrays ==
    { Bytes(Counting(n)) : n \in {4, 8, 20, Bytes32_LEN} }

CanonContainers ==
    { VecU8(n) : n \in 0..MaxBytes }
        \cup { Vec(T_prim("u16"), <<>>), Vec(T_prim("u16"), <<U16(1), U16(2)>>),
               Vec(T_prim("u32"), <<U32(7)>>),
               Vec(T_vec(T_prim("u8")), <<VecU8(3), VecU8(0)>>),
               Vec(T_bytes(4), <<Bytes(Counting(4))>>),
               Array(T_prim("u8"), <<U8(1), U8(2), U8(3)>>),
               Array(T_prim("u8"), [i \in 1..8 |-> U8(i)]),
               Array(T_prim("u16"), <<U16(1), U16(2)>>),
               Array(T_prim("u64"), <<U64(5)>>),
               Array(T_vec(T_prim("u8")), <<VecU8(1), VecU8(8)>>),
               Array(T_bytes(20), <<Bytes(Counting(20))>>),
               OptionNone }

CanonDerived ==
    { Struct(<<U32(3), U16(2)>>),
      Struct(<<Bytes(B32(1)), U8(1)>>),
      Struct(<<VecU8(3), OptionNone, U8(9), VecU8(5)>>),
      Struct(<<Struct(<<U32(3), U16(2)>>), Bytes(Counting(4))>>),
      Struct(<<>>),
      Enum(T_Output, 0, <<Bytes(Owner1), U64(5), Bytes(AssetA)>>),
      Enum(T_Output, 1, <<U8(0), Bytes(B32(2)), Bytes(B32(3))>>),
      Enum(T_Output, 2, <<Bytes(Owner1), U64(5)>>),
      Enum(T_Output, 5, <<Bytes(B32(2)), Bytes(B32(3))>>),
      Enum(T_InputSpec, 0,
           << Struct(<<Bytes(B32(1)), U8(1)>>), Bytes(Owner1), U64(5), Bytes(AssetA),
              Struct(<<U32(3), U16(2)>>), U8(0), U64(0), VecU8(3), VecU8(0) >>),
      Enum(T_InputSpec, 1,
           << Struct(<<Bytes(B32(1)), U8(1)>>), Bytes(B32(2)), Bytes(B32(3)),
              Struct(<<U32(3), U16(2)>>), Bytes(B32(4)) >>) }

CanonValues == CanonScalars \cup CanonByteArrays \cup CanonContainers \cup CanonDerived

\* the decoders of the tagged unions
CanonTargets ==
    {"Transaction::write", "Input::write", "Output::write", "Input::decode", "Output::decode"}

\* tag words: the tag in the last byte, in the first byte, and beyond a byte
CanonTagWords ==
    { to_be_bytes(k) : k \in (0..7) \cup {255, 256, 4095} }
        \cup { <<k>> \o Zeroes(WORD_SIZE - 1) : k \in 1..3 }

CanonBodies == { 0, 4, 256 }

\* the types decoded from arbitrary bytes
RawTypes ==
    { T_prim("u8"), T_prim("u16"), T_prim("u32"), T_prim("u64"), T_bytes(4),
      T_vec(T_prim("u8")), T_vec(T_prim("u16")), T_TxPointer }

\* words: small numbers, values in the first bytes, padding that is not zero,
\* and counts no buffer of the model can back
RawWords ==
    { Zeroes(WORD_SIZE),
      <<0, 0, 0, 0, 0, 0, 0, 1>>, <<0, 0, 0, 0, 0, 0, 0, 3>>,
      <<1, 0, 0, 0, 0, 0, 0, 0>>, <<5, 0, 0, 0, 0, 0, 0, 1>>,
      <<1, 2, 3, 4, 0, 0, 0, 0>>, <<1, 2, 3, 4, 0, 0, 9, 0>>,
      <<0, 0, 0, 0, 1, 0, 0, 0>>, <<0, 0, 0, 1, 0, 0, 0, 0>>,
      [i \in 1..WORD_SIZE |-> 255] }

RawBufs ==
    { <<>>, <<1, 2, 3, 4>> } \cup RawWords
        \cup { first \o second : first \in RawWords, second \in RawWords }

\* element counts: none, one, more than is always served, more than isize::MAX
CanonCountWords ==
    { Zeroes(WORD_SIZE), <<0, 0, 0, 0, 0, 0, 0, 1>>, <<0, 0, 0, 0, 1, 0, 0, 0>>,
      <<0, 0, 0, 1, 0, 0, 0, 0>>, [i \in 1..WORD_SIZE |-> 255] }

\* the bytes of an empty Script transaction with the inputs count replaced
ScriptWithInputsLen(count) ==
    Zeroes(WORD_SIZE + Script_maturity_offset + 3 * WORD_SIZE) \o count
        \o Zeroes(2 * WORD_SIZE + Bytes32_LEN)

CanonInit ==
    /\ CheckUnused
    /\ FeeUnused
    /\ CodecUnused
    /\ BuildUnused
    /\ ValidateUnused
    /\ TextUnused
    /\ DupUnused
    /\ alloc_fails \in BOOLEAN
    /\ canon_out = Idle
    /\ \/ \E x \in CanonValues : canon_in = [kind |-> "value", x |-> x]
       \/ \E target \in CanonTargets, word \in CanonTagWords, body \in CanonBodies :
            canon_in = [kind |-> "bytes", target |-> target, buf |-> word \o Zeroes(body)]
       \/ \E target \in CanonTargets :
            canon_in = [kind |-> "bytes", target |-> target, buf |-> Zeroes(4)]
       \/ \E count \in CanonCountWords :
            canon_in = [kind |-> "bytes", target |-> "Transaction::write",
                        buf |-> ScriptWithInputsLen(count)]
       \/ \E ty \in RawTypes, buf \in RawBufs :
            canon_in = [kind |-> "raw", ty |-> ty, buf |-> buf]

\* x.encode(&mut buffer)
CanonEncode ==
    /\ canon_in.kind = "value"
    /\ canon_out = Idle
    /\ canon_out' = [op |-> "encode", result |-> Serialize_encode(canon_in.x)]
    /\ UNCHANGED <<read_len, built, alloc_fails, text_in, text_out, dup_in, dup_out, fee_in, fee_out, tx, byte_price, check_args, checked, wire, decoded, validated, canon_in>>

\* T::decode(&mut bytes.as_slice()) on the bytes just written
CanonDecode ==
    /\ canon_in.kind = "value"
    /\ canon_out # Idle
    /\ canon_out.op = "encode"
    /\ canon_out.result.ok
    /\ canon_out' = [op |-> "decode", bytes |-> canon_out.result.val,
                     result |-> decode(type_of(canon_in.x), canon_out.result.val)]
    /\ UNCHANGED <<read_len, built, alloc_fails, text_in, text_out, dup_in, dup_out, fee_in, fee_out, tx, byte_price, check_args, checked, wire, decoded, validated, canon_in>>

\* the decoder of a tagged union on given bytes
decode_tagged(target, buf) ==
    CASE target = "Transaction::write" -> Transaction_write(buf)
      [] target = "Input::write" -> Input_write(buf, 0)
      [] target = "Output::write" -> Output_write(buf, 0)
      [] target = "Input::decode" -> Input_decode(buf)
      [] target = "Output::decode" -> Output_decode(buf)

CanonDecodeTagged ==
    /\ canon_in.kind = "bytes"
    /\ canon_out = Idle
    /\ canon_out' = [op |-> canon_in.target, bytes |-> canon_in.buf,
                     result |-> decode_tagged(canon_in.target, canon_in.buf)]
    /\ UNCHANGED <<read_len, built, alloc_fails, text_in, text_out, dup_in, dup_out, fee_in, fee_out, tx, byte_price, check_args, checked, wire, decoded, validated, canon_in>>

\* T::decode(&mut bytes) on arbitrary bytes
CanonDecodeRaw ==
    /\ canon_in.kind = "raw"
    /\ canon_out = Idle
    /\ canon_out' = [op |-> "decode_raw", bytes |-> canon_in.buf,
                     result |-> decode(canon_in.ty, canon_in.buf)]
    /\ UNCHANGED <<read_len, built, alloc_fails, text_in, text_out, dup_in, dup_out, fee_in, fee_out, tx, byte_price, check_args, checked, wire, decoded, validated, canon_in>>

\* value.to_bytes() on the value just decoded
CanonReencode ==
    /\ canon_in.kind = "raw"
    /\ canon_out # Idle
    /\ canon_out.op = "decode_raw"
    /\ canon_out.result.ok
    /\ canon_out' = [op |-> "reencode", bytes |-> canon_in.buf,
                     consumed |-> canon_out.result.val.off,
                     value |-> canon_out.result.val.v,
                     result |-> Serialize_encode(canon_out.result.val.v)]
    /\ UNCHANGED <<read_len, built, alloc_fails, text_in, text_out, dup_in, dup_out, fee_in, fee_out, tx, byte_price, check_args, checked, wire, decoded, validated, canon_in>>

CanonNext ==
    \/ CanonEncode
    \/ CanonDecode
    \/ CanonDecodeTagged
    \/ CanonDecodeRaw
    \/ CanonReencode

SpecCanon == CanonInit /\ [][CanonNext]_vars

\* ----------------------------------------------- the text specification

MaxOutputIndex == 255

TextTxIds ==
    { Zeroes(Bytes32_LEN), B32(11),
      [i \in 1..Bytes32_LEN |-> IF i = 1 THEN 12 ELSE IF i = Bytes32_LEN THEN 11 ELSE 0],
      [i \in 1..Bytes32_LEN |-> 255 - i] }

TextInit ==
    /\ CheckUnused
    /\ FeeUnused
    /\ CodecUnused
    /\ BuildUnused
    /\ ValidateUnused
    /\ CanonUnused
    /\ DupUnused
    /\ AllocServes
    /\ text_out = Idle
    /\ \E tx_id \in TextTxIds, output_index \in 0..MaxOutputIndex :
          text_in = UtxoId_new(tx_id, output_index)

\* format!("{:x}", utxo_id) and format!("{:#x}", utxo_id)
FormatLowerHex ==
    /\ text_out = Idle
    /\ \E alternate \in BOOLEAN :
          text_out' = [op |-> "fmt", upper |-> FALSE, alternate |-> alternate,
                       text |-> UtxoId_fmt(text_in, FALSE, alternate)]
    /\ UNCHANGED <<read_len, built, alloc_fails, fee_in, fee_out, tx, byte_price, check_args, checked, wire, decoded, validated, canon_in, canon_out, text_in, dup_in, dup_out>>

\* format!("{:X}", utxo_id) and format!("{:#X}", utxo_id)
FormatUpperHex ==
    /\ text_out = Idle
    /\ \E alternate \in BOOLEAN :
          text_out' = [op |-> "fmt", upper |-> TRUE, alternate |-> alternate,
                       text |-> UtxoId_fmt(text_in, TRUE, alternate)]
    /\ UNCHANGED <<read_len, built, alloc_fails, fee_in, fee_out, tx, byte_price, check_args, checked, wire, decoded, validated, canon_in, canon_out, text_in, dup_in, dup_out>>

\* UtxoId::from_str on the formatted text
FromStr ==
    /\ text_out # Idle
    /\ text_out.op = "fmt"
    /\ \E exact \in BOOLEAN :
          text_out' = [op |-> "from_str", upper |-> text_out.upper,
                       alternate |-> text_out.alternate, text |-> text_out.text,
                       exact |-> exact,
                       result |-> UtxoId_from_str(text_out.text, exact)]
    /\ UNCHANGED <<read_len, built, alloc_fails, fee_in, fee_out, tx, byte_price, check_args, checked, wire, decoded, validated, canon_in, canon_out, text_in, dup_in, dup_out>>

TextNext ==
    \/ FormatLowerHex
    \/ FormatUpperHex
    \/ FromStr

SpecText == TextInit /\ [][TextNext]_vars

\* ------------------------------------------ the duplicate-finder specification

MaxItems == 4
DupValues == 1..3

DupInit ==
    /\ CheckUnused
    /\ FeeUnused
    /\ CodecUnused
    /\ BuildUnused
    /\ ValidateUnused
    /\ CanonUnused
    /\ TextUnused
    /\ AllocServes
    /\ dup_out = Idle
    /\ \E n \in 0..MaxItems : dup_in \in [1..n -> DupValues]

\* next_duplicate(items.into_iter()) in a build with the std feature
NextDuplicateStd ==
    /\ dup_out = Idle
    /\ dup_out' = [std |-> TRUE, result |-> next_duplicate(dup_in)]
    /\ UNCHANGED <<read_len, built, alloc_fails, text_in, text_out, dup_in, fee_in, fee_out, tx, byte_price, check_args, checked, wire, decoded, validated, canon_in, canon_out>>

\* the same call in a build without it
NextDuplicateNoStd ==
    /\ dup_out = Idle
    /\ dup_out' = [std |-> FALSE, result |-> next_duplicate_no_std(dup_in)]
    /\ UNCHANGED <<read_len, built, alloc_fails, text_in, text_out, dup_in, fee_in, fee_out, tx, byte_price, check_args, checked, wire, decoded, validated, canon_in, canon_out>>

DupNext ==
    \/ NextDuplicateStd
    \/ NextDuplicateNoStd

SpecDup == DupInit /\ [][DupNext]_vars

\* ----------------------------------------------- the builder specification

\* Hasher: the digest of a preimage, distinct for distinct preimages
Hasher_digest(preimage) == [sha256 |-> preimage]

\* Input::owner: the hash of the public key
Input_owner(pk) == Hasher_digest(<<pk>>)

\* Input::compute_message_id
compute_message_id(sender, recipient, nonce, amount, data) ==
    Hasher_digest(<<sender, recipient, nonce, amount, data>>)

Witness_default == <<>>

\* `witnesses.len() as u8`: the low eight bits of the length
len_as_u8(items) == Len(items) % 256

\* the same conversion without the truncation
len_as_index(items) == Len(items)

\* Transaction::_set_bytecode
set_bytecode(t, bytecode) ==
    IF t.variant = "Create"
      THEN Ok([t EXCEPT !.bytecode_length = Len(bytecode) \div 4,
                        !.bytecode_witness_index = len_as_u8(t.witnesses),
                        !.witnesses = Append(t.witnesses, bytecode)])
      ELSE Err("FieldDoesNotExist")

\* Executable::add_unsigned_coin_input
add_unsigned_coin_input(t, utxo_id, pk, amount, asset_id, tx_pointer, maturity) ==
    LET owner == Input_owner(pk)
        witness_index == len_as_u8(t.witnesses)
        input == Input_coin_signed(utxo_id, owner, amount, asset_id, tx_pointer,
                                   witness_index, maturity)
    IN  [t EXCEPT !.witnesses = Append(t.witnesses, Witness_default),
                  !.inputs = Append(t.inputs, input)]

\* Executable::add_unsigned_message_input
add_unsigned_message_input(t, sender, recipient, nonce, amount, data) ==
    LET message_id == compute_message_id(sender, recipient, nonce, amount, data)
        witness_index == len_as_u8(t.witnesses)
        input == Input_message_signed(message_id, sender, recipient, amount, nonce,
                                      witness_index, data)
    IN  [t EXCEPT !.witnesses = Append(t.witnesses, Witness_default),
                  !.inputs = Append(t.inputs, input)]

MaxBuildCalls == 3
\* the numbers of witnesses a transaction holds before the first call
BuildWitnessCounts == {0, 1, 254, 255, 256, 257}
BuildWitnesses == { Witness_default, Bytecode8 }
BuildBytecodes == { <<>>, <<1, 2, 3, 4>>, <<1, 2, 3, 4, 5>>, <<7, 7, 7, 7, 7, 7, 7, 7>> }
BuildPublicKeys == { 1, 2 }

BuildInit ==
    /\ FeeUnused
    /\ CodecUnused
    /\ ValidateUnused
    /\ CanonUnused
    /\ TextUnused
    /\ DupUnused
    /\ AllocServes
    /\ byte_price = 0
    /\ check_args = Idle
    /\ checked = Idle
    /\ built = [op |-> "new", calls |-> 0]
    /\ \E n \in BuildWitnessCounts, w \in BuildWitnesses :
          LET witnesses == [i \in 1..n |-> w]
          IN  \/ tx = Transaction_script(0, 3, 0, RetScript, <<>>, <<>>, <<>>, witnesses)
              \/ tx = Transaction_create(0, 3, 0, 0, B32(5), <<>>, <<>>, <<>>, witnesses)

\* tx.set_bytecode(bytecode)
SetBytecode ==
    /\ built.calls < MaxBuildCalls
    /\ \E bytecode \in BuildBytecodes :
          LET r == set_bytecode(tx, bytecode)
          IN  /\ tx' = IF r.ok THEN r.val ELSE tx
              /\ built' = [op |-> "set_bytecode", calls |-> built.calls + 1,
                           bytecode |-> bytecode, ok |-> r.ok]
    /\ UNCHANGED <<read_len, alloc_fails, text_in, text_out, dup_in, dup_out, fee_in, fee_out, byte_price, check_args, checked, wire, decoded, validated, canon_in, canon_out>>

\* tx.add_unsigned_coin_input(utxo_id, &pk, amount, asset_id, tx_pointer, maturity)
AddUnsignedCoinInput ==
    /\ built.calls < MaxBuildCalls
    /\ \E pk \in BuildPublicKeys :
          tx' = add_unsigned_coin_input(tx, UtxoId_new(B32(1), Len(tx.inputs)), pk, 1,
                                        AssetId_BASE, TxPointer_new(0, 0), 0)
    /\ built' = [op |-> "add_unsigned_coin_input", calls |-> built.calls + 1]
    /\ UNCHANGED <<read_len, alloc_fails, text_in, text_out, dup_in, dup_out, fee_in, fee_out, byte_price, check_args, checked, wire, decoded, validated, canon_in, canon_out>>

\* tx.add_unsigned_message_input(sender, recipient, nonce, amount, data)
AddUnsignedMessageInput ==
    /\ built.calls < MaxBuildCalls
    /\ \E data \in { <<>>, <<1>> } :
          tx' = add_unsigned_message_input(tx, B32(1), B32(2), Len(tx.inputs), 1, data)
    /\ built' = [op |-> "add_unsigned_message_input", calls |-> built.calls + 1]
    /\ UNCHANGED <<read_len, alloc_fails, text_in, text_out, dup_in, dup_out, fee_in, fee_out, byte_price, check_args, checked, wire, decoded, validated, canon_in, canon_out>>

BuildNext ==
    \/ SetBytecode
    \/ AddUnsignedCoinInput
    \/ AddUnsignedMessageInput

SpecBuild == BuildInit /\ [][BuildNext]_vars

\* ---------------------------------------------------- fee-engine properties

\* the mathematical fee, computed without any width limit
ExactCeil(n, d) == (n + d - 1) \div d
ExactBytesProduct == fee_in.gas_per_byte * fee_in.metered_bytes * fee_in.gas_price
ExactTotalProduct ==
    (fee_in.gas_per_byte * fee_in.metered_bytes + fee_in.gas_limit) * fee_in.gas_price
ExactBytesFee == ExactCeil(ExactBytesProduct, fee_in.gas_price_factor)
ExactTotalFee == ExactCeil(ExactTotalProduct, fee_in.gas_price_factor)
FeeCalled == fee_out # Idle

\* ------------------------------------------- checked-transaction properties

CheckCalled == checked # Idle
Validated == validate(tx, check_args.block_height, check_args.params)
FeeOf == check_fee(tx, byte_price, check_args.params)

CoinInputAssets ==
    {tx.inputs[i].asset_id : i \in {k \in 1..Len(tx.inputs) : Input_is_coin(tx.inputs[k])}}

\* the unbounded sums the balance accounting is specified with
TrueCoinInputs(asset) ==
    SumSeq([i \in 1..Len(tx.inputs) |->
               IF Input_is_coin(tx.inputs[i]) /\ tx.inputs[i].asset_id = asset
                 THEN tx.inputs[i].amount ELSE 0])

TrueCoinOutputsBefore(asset, j) ==
    SumSeq([i \in 1..(j - 1) |->
               IF tx.outputs[i].variant = "Coin" /\ tx.outputs[i].asset_id = asset
                 THEN tx.outputs[i].amount ELSE 0])

TrueCoinOutputs(asset) == TrueCoinOutputsBefore(asset, Len(tx.outputs) + 1)

FeeShare(asset, fee) == IF asset = AssetId_BASE THEN fee ELSE 0

\* C2: check returns Ok only if validate(block_height, params) returns Ok for
\* the same transaction; the Ok value wraps that transaction unchanged and
\* records the block height passed in; when validate fails, check returns the
\* same validation error.
C2_CheckOnlyIfValid ==
    CheckCalled =>
        /\ checked.ok =>
              /\ Validated.ok
              /\ checked.val.transaction = tx
              /\ checked.val.block_height = check_args.block_height
        /\ ~Validated.ok => checked = Validated

\* a transaction with inputs and outputs was checked at a non-zero height
C2_Witness ==
    /\ CheckCalled /\ checked.ok
    /\ Len(tx.inputs) = MaxInputs /\ Len(tx.outputs) > 0
    /\ check_args.block_height > 0

\* a check that stopped at a signature error, with the fee uncovered as well
C2_WitnessRejected ==
    /\ CheckCalled /\ ~Validated.ok
    /\ Validated.err.kind = "InputInvalidSignature"
    /\ checked = Validated
    /\ FeeOf.ok /\ TrueCoinInputs(AssetId_BASE) < FeeOf.val.fee

\* C3: when check succeeds, the free balance of every asset of a coin input
\* is the sum of the coin inputs of the asset, less the total fee for the
\* base asset, less the sum of the Coin outputs of the asset, and it is not
\* negative.
C3_FreeBalances ==
    (CheckCalled /\ checked.ok) =>
        \A a \in CoinInputAssets :
            /\ a \in DOMAIN checked.val.initial_free_balances
            /\ checked.val.initial_free_balances[a] =
                   TrueCoinInputs(a) - FeeShare(a, checked.val.max_fee)
                       - TrueCoinOutputs(a)
            /\ TrueCoinInputs(a) - FeeShare(a, checked.val.max_fee)
                   - TrueCoinOutputs(a) >= 0

C4_WitnessNoBase ==
    /\ CheckCalled /\ Validated.ok /\ FeeOf.ok
    /\ AssetId_BASE \notin CoinInputAssets /\ Len(tx.inputs) > 0
    /\ checked = InsufficientFeeAmount(FeeOf.val.fee, 0)

IsCoinOutput(j) == tx.outputs[j].variant = "Coin"
Unfunded(j) == IsCoinOutput(j) /\ tx.outputs[j].asset_id \notin CoinInputAssets
Remaining(j) ==
    TrueCoinInputs(tx.outputs[j].asset_id)
        - FeeShare(tx.outputs[j].asset_id, FeeOf.val.fee)
        - TrueCoinOutputsBefore(tx.outputs[j].asset_id, j)
\* the first Coin output of its asset that does not fit in what is left
Overspends(j) ==
    /\ IsCoinOutput(j) /\ ~Unfunded(j)
    /\ tx.outputs[j].amount > Remaining(j)
    /\ \A i \in 1..(j - 1) :
          (IsCoinOutput(i) /\ tx.outputs[i].asset_id = tx.outputs[j].asset_id)
             => tx.outputs[i].amount <= Remaining(i)
CoinOutputError(j) ==
    IF Unfunded(j)
      THEN VErrId("TransactionOutputCoinAssetIdNotFound", tx.outputs[j].asset_id)
      ELSE InsufficientInputAmount(tx.outputs[j].asset_id, tx.outputs[j].amount,
                                   Remaining(j))
OtherwiseValid ==
    \/ Validated.ok
    \/ Validated.err.kind = "TransactionOutputCoinAssetIdNotFound"

\* C5: with the fee covered, a Coin output whose amount exceeds the remaining
\* balance of its asset makes check fail with InsufficientInputAmount{asset,
\* expected: amount, provided: remaining}, and a Coin output whose asset has no
\* coin input makes it fail with TransactionOutputCoinAssetIdNotFound(asset).
C5_CoinOutputErrors ==
    (CheckCalled /\ ~IsPanic(checked) /\ OtherwiseValid /\ FeeOf.ok
        /\ TrueCoinInputs(AssetId_BASE) >= FeeOf.val.fee
        /\ \E j \in 1..Len(tx.outputs) : Unfunded(j) \/ Overspends(j))
      => \E j \in 1..Len(tx.outputs) :
            /\ Unfunded(j) \/ Overspends(j)
            /\ checked = CoinOutputError(j)

FromValuesOfTx ==
    from_values(check_args.params.gas_per_byte, check_args.params.gas_price_factor,
                metered_bytes_size(tx), tx.gas_limit, tx.gas_price)

\* C6: the fee check deducts and the min/max fee it records are the bytes and
\* total fee of from_values(params, metered_bytes_size, gas_limit, gas_price),
\* and check fails with an overflow error exactly when from_values does.
C6_FeeAgreesWithFromValues ==
    (CheckCalled /\ Validated.ok /\ ~IsPanic(checked)) =>
        /\ checked.ok =>
              /\ FromValuesOfTx.ok
              /\ checked.val.max_fee = FromValuesOfTx.val.total
              /\ checked.val.min_fee = FromValuesOfTx.val.bytes
        /\ (checked = VErr("ArithmeticOverflow")) <=> ~FromValuesOfTx.ok

ExactMinFee ==
    ExactCeil(metered_bytes_size(tx) * byte_price, check_args.params.gas_price_factor)
ExactGasFee ==
    ExactCeil(tx.gas_limit * tx.gas_price, check_args.params.gas_price_factor)

\* C10: a successfully checked transaction has
\* min_fee = ceil(metered_bytes_size * byte_price / gas_price_factor) and
\* max_fee = min_fee + ceil(gas_limit * gas_price / gas_price_factor); if
\* byte_price * metered_bytes_size, gas_price * gas_limit or the sum of the two
\* fee parts exceeds Word::MAX, check returns ArithmeticOverflow.
C10_MinMaxFee ==
    (CheckCalled /\ Validated.ok /\ ~IsPanic(checked)) =>
        /\ checked.ok =>
              /\ checked.val.min_fee = ExactMinFee
              /\ checked.val.max_fee = ExactMinFee + ExactGasFee
        /\ (\/ byte_price * metered_bytes_size(tx) > WORD_MAX
            \/ tx.gas_price * tx.gas_limit > WORD_MAX
            \/ ExactMinFee + ExactGasFee > WORD_MAX)
              => checked = VErr("ArithmeticOverflow")

\* C7: whenever from_values returns Ok (factor > 0), bytes is
\* ceil(gas_per_byte * metered_bytes * gas_price / factor), total is
\* ceil((gas_per_byte * metered_bytes + gas_limit) * gas_price / factor),
\* total >= bytes, and a zero gas price gives a zero fee.
C7_FeeIsCeiling ==
    (FeeCalled /\ fee_in.gas_price_factor > 0 /\ fee_out.ok) =>
        /\ fee_out.val.bytes = ExactBytesFee
        /\ fee_out.val.total = ExactTotalFee
        /\ fee_out.val.total >= fee_out.val.bytes
        /\ (fee_in.gas_price = 0 =>
               fee_out.val.bytes = 0 /\ fee_out.val.total = 0)

\* an Ok fee whose division left a remainder, so that the ceiling rounded up
C7_Witness ==
    /\ FeeCalled /\ fee_out.ok
    /\ ExactTotalProduct % fee_in.gas_price_factor # 0
    /\ ExactBytesProduct % fee_in.gas_price_factor # 0
    /\ fee_out.val.total > fee_out.val.bytes

\* C8: from_values never returns a wrapped value: an exact bytes fee or total
\* fee that does not fit in a Word gives Err(ArithmeticOverflow); so do
\* metered_bytes = MAX with gas_per_byte >= 2, gas_limit = MAX with
\* gas_per_byte * metered_bytes >= 1, and gas_price = MAX with
\* gas_per_byte * metered_bytes + gas_limit > factor.
C8_OverflowIsReported ==
    (FeeCalled /\ fee_in.gas_price_factor > 0) =>
        /\ (ExactBytesFee > WORD_MAX \/ ExactTotalFee > WORD_MAX)
              => fee_out = Err("ArithmeticOverflow")
        /\ (fee_in.metered_bytes = WORD_MAX /\ fee_in.gas_per_byte >= 2)
              => fee_out = Err("ArithmeticOverflow")
        /\ (fee_in.gas_limit = WORD_MAX
                /\ fee_in.gas_per_byte * fee_in.metered_bytes >= 1)
              => fee_out = Err("ArithmeticOverflow")
        /\ (fee_in.gas_price = WORD_MAX
                /\ fee_in.gas_per_byte * fee_in.metered_bytes + fee_in.gas_limit
                      > fee_in.gas_price_factor)
              => fee_out = Err("ArithmeticOverflow")

\* the overflow is reported for a fee that does not fit, with every operand
\* but the price small
C8_Witness ==
    /\ FeeCalled
    /\ fee_out = Err("ArithmeticOverflow")
    /\ fee_in.gas_price = WORD_MAX /\ fee_in.metered_bytes < WORD_MAX
    /\ fee_in.gas_limit < WORD_MAX
    /\ ExactTotalFee > WORD_MAX

\* C9: with factor > 0, whenever the exact bytes fee and the exact total fee
\* both fit in a Word, from_values returns Ok, even when an intermediate
\* product exceeds Word::MAX.
C9_WideIntermediate ==
    (FeeCalled /\ fee_in.gas_price_factor > 0
        /\ ExactBytesFee <= WORD_MAX /\ ExactTotalFee <= WORD_MAX)
      => fee_out.ok

\* ------------------------------------------------------- codec properties

CodecValid == validate(tx, CodecBlockHeight, CodecParams).ok
Decoded == decoded # Idle

\* C1: for every valid transaction t, Script or Create, the bytes that
\* serializing t wrote decode (Transaction::try_from_bytes) to a transaction
\* equal to t
C1_RoundTrip ==
    (Decoded /\ CodecValid) => (decoded.ok /\ decoded.val.tx = tx)

C1_Witness ==
    /\ Decoded
    /\ CodecValid
    /\ tx.variant = "Create"
    /\ Len(tx.storage_slots) = 2
    /\ Len(tx.inputs) = 2
    /\ Len(tx.outputs) = 2
    /\ decoded.ok
    /\ decoded.val.tx = tx

C1_WitnessScript ==
    /\ Decoded
    /\ CodecValid
    /\ tx.variant = "Script"
    /\ \E i \in 1..Len(tx.inputs) : tx.inputs[i].variant = "MessagePredicate"
    /\ \E i \in 1..Len(tx.inputs) : tx.inputs[i].variant = "Contract"
    /\ decoded.val.tx = tx

\* an invalid transaction whose bytes decode to a different transaction
C1_WitnessInvalid ==
    /\ Decoded
    /\ ~CodecValid
    /\ decoded.ok
    /\ decoded.val.tx # tx

\* ---------------------------------------------------- offset properties

Serialized == wire # Idle /\ wire.ok

\* an input whose wire form decodes to the same variant: a predicate input
\* carries a predicate (the decoder tells the signed from the predicate variant
\* by the predicate being empty)
KeepsVariant(input) ==
    input.variant \in {"CoinPredicate", "MessagePredicate"}
        => Len(input.predicate) > 0

\* the input decoded from the serialized bytes at a byte position
InputAt(pos) == Input_write(wire.val.buf, pos)

C12_WitnessCreate ==
    /\ Serialized
    /\ tx.variant = "Create"
    /\ Len(tx.storage_slots) = 2
    /\ Len(tx.inputs) = 2
    /\ tx.inputs[1].variant = "MessageSigned"
    /\ InputAt(input_offset(tx, 1).v).val.v = tx.inputs[2]

\* ------------------------------------------------- validation properties

ValidatedTx == validated # Idle /\ validated.op = "validate_without_signature"
ValidatedOutput == validated # Idle /\ validated.op = "Output::validate"

\* the transaction with other witnesses, all else unchanged
WithWitnesses(t, witnesses) == [t EXCEPT !.witnesses = witnesses]

\* the number of bytes the witnesses take on the wire
WitnessBytes(t) ==
    SumSeq([i \in 1..Len(t.witnesses) |-> Len(Witness_read(t.witnesses[i]))])

\* C11: the metered byte size does not depend on the witnesses (it is that of
\* the same transaction with no witness, and with one witness less), and it
\* is the serialized size less the serialized size of all witnesses
C11_MeteredExcludesWitnesses ==
    /\ metered_bytes_size(tx) = metered_bytes_size(WithWitnesses(tx, <<>>))
    /\ \A n \in 0..Len(tx.witnesses) :
          metered_bytes_size(tx)
             = metered_bytes_size(WithWitnesses(tx, SubSeq(tx.witnesses, 1, n)))
    /\ metered_bytes_size(tx) = Transaction_serialized_size(tx) - WitnessBytes(tx)

C11_Witness ==
    /\ Len(tx.witnesses) = MaxWitnesses
    /\ Len(tx.inputs) > 0
    /\ Len(tx.outputs) > 0
    /\ tx.variant = "Script"
    /\ WitnessBytes(tx) > 0
    /\ metered_bytes_size(tx) < Transaction_serialized_size(tx)

C11_WitnessCreate ==
    /\ Len(tx.witnesses) = MaxWitnesses
    /\ tx.variant = "Create"
    /\ Len(tx.storage_slots) > 0
    /\ metered_bytes_size(tx) = Transaction_serialized_size(tx) - WitnessBytes(tx)

\* the rules validation applies before it looks for duplicated utxo ids
ChangeDuplicated ==
    \E i \in 1..Len(tx.inputs) :
        /\ Input_asset_id(tx.inputs[i]).some
        /\ Cardinality({j \in 1..Len(tx.outputs) :
                           /\ tx.outputs[j].variant = "Change"
                           /\ tx.outputs[j].asset_id = Input_asset_id(tx.inputs[i]).v}) > 1

EarlierRulesPass ==
    /\ tx.gas_limit <= CodecParams.max_gas_per_tx
    /\ CodecBlockHeight >= tx.maturity
    /\ Len(tx.inputs) <= CodecParams.max_inputs
    /\ Len(tx.outputs) <= CodecParams.max_outputs
    /\ Len(tx.witnesses) <= CodecParams.max_witnesses
    /\ ~ChangeDuplicated

SharedUtxo(i, j) ==
    /\ i < j
    /\ Input_utxo_id(tx.inputs[i]).some
    /\ Input_utxo_id(tx.inputs[j]).some
    /\ Input_utxo_id(tx.inputs[i]).v = Input_utxo_id(tx.inputs[j]).v

\* C13: a transaction in which two inputs of any variants (coin or contract)
\* carry the same UtxoId, and which no earlier rule rejects, fails
\* validate_without_signature with DuplicateInputUtxoId carrying that UtxoId
C13_DuplicateUtxoId ==
    (ValidatedTx /\ EarlierRulesPass) =>
        \A i, j \in 1..Len(tx.inputs) :
            SharedUtxo(i, j) =>
                validated.result
                    = VErrId("DuplicateInputUtxoId", Input_utxo_id(tx.inputs[i]).v)

\* a coin input and a contract input of one UtxoId, accepted
C13_SharedUtxoAccepted ==
    /\ ValidatedTx
    /\ validated.result.ok
    /\ \E i, j \in 1..Len(tx.inputs) :
          /\ SharedUtxo(i, j)
          /\ Input_is_coin(tx.inputs[i])
          /\ tx.inputs[j].variant = "Contract"

\* two coin inputs of one UtxoId, rejected
C13_CoinsRejected ==
    /\ ValidatedTx
    /\ \E i, j \in 1..Len(tx.inputs) :
          /\ SharedUtxo(i, j)
          /\ Input_is_coin(tx.inputs[i])
          /\ Input_is_coin(tx.inputs[j])
    /\ validated.result = VErrId("DuplicateInputUtxoId", Utxo1)

CountOutputs(variant) ==
    Cardinality({j \in 1..Len(tx.outputs) : tx.outputs[j].variant = variant})

\* C14: a Create transaction that passes validate_without_signature has
\* exactly one ContractCreated output, no Contract and no Variable output
C14_CreateOutputs ==
    (ValidatedTx /\ tx.variant = "Create" /\ validated.result.ok) =>
        /\ CountOutputs("ContractCreated") = 1
        /\ CountOutputs("Contract") = 0
        /\ CountOutputs("Variable") = 0

\* a Create transaction with no ContractCreated output, accepted
C14_NoneCreatedAccepted ==
    /\ ValidatedTx
    /\ tx.variant = "Create"
    /\ validated.result.ok
    /\ Len(tx.outputs) > 0
    /\ CountOutputs("ContractCreated") = 0

\* a second ContractCreated output, rejected
C14_TwoCreatedRejected ==
    /\ ValidatedTx
    /\ tx.variant = "Create"
    /\ CountOutputs("ContractCreated") = 2
    /\ validated.result
          = VErrIndex("TransactionCreateOutputContractCreatedMultiple", 1)

\* some adjacent pair of slots has key[k] > key[k + 1]
SlotsUnsorted(slots) ==
    \E k \in 1..(Len(slots) - 1) : ~bytes_le(slots[k].key, slots[k + 1].key)

\* the slots in ascending order of key, slots of equal keys in their order
RECURSIVE InsertSlot(_, _)
InsertSlot(done, slot) ==
    IF done = <<>> THEN <<slot>>
    ELSE IF bytes_le(Head(done).key, slot.key)
      THEN <<Head(done)>> \o InsertSlot(Tail(done), slot)
      ELSE <<slot>> \o done

RECURSIVE SortSlots(_)
SortSlots(slots) ==
    IF slots = <<>> THEN <<>>
    ELSE InsertSlot(SortSlots(SubSeq(slots, 1, Len(slots) - 1)), slots[Len(slots)])

\* the rules of the Create arm that come before the slot order
EarlierCreateRulesPass ==
    /\ validate_without_signature_internal(
           CodecBlockHeight, CodecParams, tx.gas_limit, tx.maturity,
           tx.inputs, tx.outputs, tx.witnesses).ok
    /\ tx.bytecode_witness_index < Len(tx.witnesses)
    /\ Len(tx.witnesses[tx.bytecode_witness_index + 1]) <= CodecParams.contract_max_size
    /\ Len(tx.witnesses[tx.bytecode_witness_index + 1]) \div 4 = tx.bytecode_length
    /\ Len(tx.storage_slots) <= CodecParams.max_storage_slots

SlotOrderError == VErr("TransactionCreateStorageSlotOrder")

\* C15: a Create transaction whose slots are not in non-decreasing order of
\* key fails validate_without_signature with TransactionCreateStorageSlotOrder
\* when no earlier rule rejects it; with the slots in ascending order of key
\* and all else unchanged, it does not fail with that error
C15_SlotOrder ==
    (ValidatedTx /\ tx.variant = "Create") =>
        /\ (SlotsUnsorted(tx.storage_slots) /\ EarlierCreateRulesPass)
              => validated.result = SlotOrderError
        /\ ~SlotsUnsorted(tx.storage_slots) => validated.result # SlotOrderError
        /\ validate_without_signature(
               [tx EXCEPT !.storage_slots = SortSlots(tx.storage_slots)],
               CodecBlockHeight, CodecParams) # SlotOrderError

C15_Witness ==
    /\ ValidatedTx
    /\ tx.variant = "Create"
    /\ tx.storage_slots = <<Slot2, Slot1>>
    /\ Len(tx.inputs) > 0
    /\ CountOutputs("ContractCreated") = 1
    /\ validated.result = SlotOrderError
    /\ SortSlots(tx.storage_slots) = <<Slot1, Slot2>>
    /\ validate_without_signature(
           [tx EXCEPT !.storage_slots = SortSlots(tx.storage_slots)],
           CodecBlockHeight, CodecParams).ok

\* slots of equal keys, in either order of their values, are in order
C15_WitnessEqualKeys ==
    /\ ValidatedTx
    /\ tx.variant = "Create"
    /\ tx.storage_slots = <<Slot1, Slot1b>>
    /\ validated.result.ok

ValidatedOutputIs(variants) ==
    /\ ValidatedOutput
    /\ tx.outputs[validated.index + 1].variant \in variants

\* C16: Output::validate(index, inputs) on a Contract output succeeds iff
\* inputs[input_index] exists and is a contract input, and otherwise fails with
\* OutputContractInputIndex carrying the position of the output; Coin, Change,
\* Variable and ContractCreated outputs always pass
C16_ContractOutput ==
    /\ ValidatedOutputIs({"Contract"}) =>
          LET input_index == tx.outputs[validated.index + 1].input_index
              refers == /\ input_index < Len(tx.inputs)
                        /\ tx.inputs[input_index + 1].variant = "Contract"
          IN  /\ validated.result.ok <=> refers
              /\ ~refers => validated.result
                               = VErrIndex("OutputContractInputIndex", validated.index)
    /\ ValidatedOutputIs({"Coin", "Change", "Variable", "ContractCreated"})
          => validated.result.ok

\* the second output refers to the first input, which is a coin
C16_Witness ==
    /\ ValidatedOutputIs({"Contract"})
    /\ validated.index = 1
    /\ tx.outputs[2].input_index = 0
    /\ Len(tx.inputs) = 2
    /\ tx.inputs[1].variant = "CoinSigned"
    /\ validated.result = VErrIndex("OutputContractInputIndex", 1)

C16_WitnessOk ==
    /\ ValidatedOutputIs({"Contract"})
    /\ tx.outputs[validated.index + 1].input_index = 1
    /\ validated.result.ok

C16_WitnessOutOfRange ==
    /\ ValidatedOutputIs({"Contract"})
    /\ tx.outputs[validated.index + 1].input_index >= Len(tx.inputs)
    /\ ~validated.result.ok

\* C17: Output::validate on a Message output succeeds only when the recipient
\* is the zero address and the amount is 0; a non-zero recipient fails with
\* OutputMessageRecipientNotZero, a zero recipient with a non-zero amount with
\* OutputMessageAmountNotZero, each carrying the position of the output
C17_MessageOutput ==
    ValidatedOutputIs({"Message"}) =>
        LET output == tx.outputs[validated.index + 1]
        IN  validated.result =
                IF output.recipient # Address_zeroed
                  THEN VErrIndex("OutputMessageRecipientNotZero", validated.index)
                ELSE IF output.amount # 0
                  THEN VErrIndex("OutputMessageAmountNotZero", validated.index)
                ELSE OkUnit

\* a Message output to a non-zero recipient, accepted
C17_RecipientAccepted ==
    /\ ValidatedOutputIs({"Message"})
    /\ tx.outputs[validated.index + 1].recipient # Address_zeroed
    /\ validated.result.ok

\* --------------------------------------------- canonical-codec properties

Encoded == canon_out # Idle /\ canon_out.op = "encode"
RoundTripped == canon_out # Idle /\ canon_out.op = "decode"
DecodedTagged == canon_out # Idle /\ canon_out.op \in CanonTargets

\* the number of variants each tagged union declares
VariantCount(target) ==
    CASE target = "Transaction::write" -> 2
      [] target \in {"Input::write", "Input::decode"} -> 3
      [] target \in {"Output::write", "Output::decode"} -> 6

\* the value of the leading word of the bytes, read big-endian over 8 bytes
TagValue == be_value(Sub(canon_in.buf, 0, WORD_SIZE))

\* the bytes begin with a whole word that names no variant
UnknownTag ==
    /\ DecodedTagged
    /\ Len(canon_in.buf) >= WORD_SIZE
    /\ TagValue >= VariantCount(canon_in.target)

\* C18: decoding a Transaction, an Input or an Output from bytes whose leading
\* tag word is at least the number of declared variants fails: with
\* UnknownDiscriminant in the derived decoders, with the invalid-identifier
\* error (InvalidData) in the io::Write implementations; no variant is returned.
C18_UnknownDiscriminant ==
    UnknownTag =>
        /\ ~canon_out.result.ok
        /\ canon_in.target \in {"Input::decode", "Output::decode"}
               => canon_out.result = UnknownDiscriminant
        /\ canon_in.target \in {"Transaction::write", "Input::write", "Output::write"}
               => canon_out.result = InvalidData

\* an Output tag of 7 in front of enough bytes for any variant is refused
C18_Witness ==
    /\ UnknownTag
    /\ canon_in.target = "Output::decode"
    /\ TagValue = 7
    /\ Len(canon_in.buf) > 256
    /\ canon_out.result = UnknownDiscriminant

\* a transaction identifier of 2 is refused
C18_WitnessIdentifier ==
    /\ UnknownTag
    /\ canon_in.target = "Transaction::write"
    /\ TagValue = 2
    /\ canon_out.result = InvalidData

\* the same bytes behind a tag of 0 decode to the first variant
C18_WitnessKnownTag ==
    /\ DecodedTagged
    /\ canon_in.target = "Output::decode"
    /\ Len(canon_in.buf) > 256
    /\ TagValue = 0
    /\ canon_out.result.ok
    /\ canon_out.result.val.v.ordinal = 0

SubWord == {"u8", "u16", "u32"}

EncodedSubWord == Encoded /\ canon_in.x.type \in SubWord

\* C19: a u8, u16 or u32 is encoded as 8 bytes, the value big-endian in the
\* last size_of bytes and every byte before it zero, and decoding these bytes
\* returns the value.
C19_RightJustified ==
    /\ EncodedSubWord =>
          canon_out.result = Ok(primitive_encode_right_justified(canon_in.x))
    /\ RoundTripped /\ canon_in.x.type \in SubWord =>
          /\ canon_out.result.ok
          /\ canon_out.result.val.v = canon_in.x

\* what the encoder writes instead: the value in the first size_of bytes
C19_LeftJustified ==
    EncodedSubWord =>
        /\ canon_out.result.ok
        /\ Len(canon_out.result.val) = WORD_SIZE
        /\ Sub(canon_out.result.val, 0, size_of(canon_in.x.type))
               = be_bytes(canon_in.x.v, size_of(canon_in.x.type))
        /\ \A i \in size_of(canon_in.x.type) + 1..WORD_SIZE : canon_out.result.val[i] = 0

\* the u8 255 is written as 255 followed by seven zero bytes
C19_FirstByte ==
    /\ EncodedSubWord
    /\ canon_in.x = U8(255)
    /\ canon_out.result = Ok(<<255, 0, 0, 0, 0, 0, 0, 0>>)

\* the round trip of a narrow scalar returns the value
C19_RoundTrip ==
    RoundTripped /\ canon_in.x.type \in SubWord =>
        /\ canon_out.result.ok
        /\ canon_out.result.val.v = canon_in.x
        /\ canon_out.result.val.off = WORD_SIZE

\* C20: for every encodable value x, encode(x) succeeds and writes size(x)
\* bytes, a multiple of 8.
C20_SizeAligned ==
    Encoded =>
        /\ canon_out.result.ok
        /\ Len(canon_out.result.val) = size(canon_in.x)
        /\ Len(canon_out.result.val) % 8 = 0

\* a Vec<u8> of 3 bytes: the length word, the bytes, five bytes of padding
C20_Witness ==
    /\ Encoded
    /\ canon_in.x = VecU8(3)
    /\ canon_out.result = Ok(<<0, 0, 0, 0, 0, 0, 0, 3, 1, 2, 3, 0, 0, 0, 0, 0>>)

\* a 20-byte array takes 24 bytes
C20_WitnessBytes20 ==
    /\ Encoded
    /\ canon_in.x.type = "bytes"
    /\ canon_in.x.n = 20
    /\ Len(canon_out.result.val) = 24

\* a derived struct with a vector, an Option and a u8
C20_WitnessStruct ==
    /\ Encoded
    /\ canon_in.x = Struct(<<VecU8(3), OptionNone, U8(9), VecU8(5)>>)
    /\ Len(canon_out.result.val) = 40

\* ------------------------------------------------------- text properties

Formatted == text_out # Idle /\ text_out.op = "fmt"
Parsed == text_out # Idle /\ text_out.op = "from_str"

\* the text of the plain {:x} / {:X} form: "0x", 64 digits, 2 digits
TextShape ==
    /\ Len(text_out.text) = 2 + 2 * Bytes32_LEN + 2
    /\ SubSeq(text_out.text, 1, 2) = Prefix0x
    /\ SubSeq(text_out.text, 3, 2 + 2 * Bytes32_LEN)
           = Bytes32_fmt(text_in.tx_id, text_out.upper, FALSE)
    /\ SubSeq(text_out.text, 3 + 2 * Bytes32_LEN, 4 + 2 * Bytes32_LEN)
           = fmt_02x(text_in.output_index, text_out.upper)

\* C21: the lower-hex and upper-hex text of a UtxoId is "0x", the 64 hex
\* characters of tx_id and the 2 hex characters of output_index, and
\* UtxoId::from_str of that text is the UtxoId, for every output_index.
C21_TextRoundTrip ==
    /\ Formatted /\ ~text_out.alternate => TextShape
    /\ Parsed => text_out.result = Ok(text_in)

\* what from_str makes of an output_index above 15 when the trailing
\* character is tolerated: the low hex digit alone
C21_LowDigitOnly ==
    Parsed /\ text_out.result.ok =>
        /\ text_out.result.val.tx_id = text_in.tx_id
        /\ text_out.result.val.output_index = text_in.output_index % 16

\* the index 26 ("1a") comes back as 10
C21_IndexTruncated ==
    /\ Parsed
    /\ text_in.output_index = 26
    /\ text_out.result = Ok(UtxoId_new(text_in.tx_id, 10))

\* the text of the test fmt_utxo_id parses to the UtxoId of from_str_utxo_id
C21_TestCase ==
    /\ Parsed
    /\ text_in.tx_id[1] = 12
    /\ text_in.tx_id[Bytes32_LEN] = 11
    /\ text_in.output_index = 10
    /\ ~text_out.upper /\ ~text_out.alternate
    /\ text_out.text[3] = Chr_0 /\ text_out.text[4] = Chr_a + 2
    /\ text_out.result = Ok(text_in)

\* -------------------------------------------- decoding of arbitrary bytes

DecodedRaw == canon_out # Idle /\ canon_out.op = "decode_raw"
Reencoded == canon_out # Idle /\ canon_out.op = "reencode"

\* the errors a decoder returns to its caller
TypedErrors == {BufferItTooShort, UnknownDiscriminant, Eof, InvalidData}

\* C22: on every byte sequence, decoding a Transaction, an Input, an Output or
\* a codec type returns a value or a typed error; it never panics or aborts,
\* and so never on a count the buffer cannot back.
C22_DecodeTotal ==
    DecodedRaw \/ DecodedTagged =>
        canon_out.result.ok \/ canon_out.result \in TypedErrors

\* Vec<u8>::decode of eight 0xff bytes: the count exceeds isize::MAX
C22_CapacityOverflow ==
    /\ DecodedRaw
    /\ canon_in.ty = T_vec(T_prim("u8"))
    /\ canon_in.buf = [i \in 1..WORD_SIZE |-> 255]
    /\ canon_out.result = CapacityOverflow

\* a Script whose inputs count is 2^24 with no byte of input behind it: the
\* inputs are allocated before any is read
C22_UnbackedCount ==
    /\ DecodedTagged
    /\ canon_in.target = "Transaction::write"
    /\ canon_in.buf = ScriptWithInputsLen(<<0, 0, 0, 0, 1, 0, 0, 0>>)
    /\ alloc_fails
    /\ canon_out.result = AllocError

\* the same bytes in a run whose allocator serves the request: a typed error
C22_UnbackedCountServed ==
    /\ DecodedTagged
    /\ canon_in.target = "Transaction::write"
    /\ canon_in.buf = ScriptWithInputsLen(<<0, 0, 0, 0, 1, 0, 0, 0>>)
    /\ ~alloc_fails
    /\ canon_out.result = Eof

\* truncated and mistagged buffers do get typed errors
C22_TypedErrorsOtherwise ==
    (DecodedRaw \/ DecodedTagged) /\ ~canon_out.result.ok /\ ~IsPanic(canon_out.result)
        => canon_out.result \in TypedErrors

\* ------------------------------------------------- derived-enum properties

EnumValue == canon_in.kind = "value" /\ canon_in.x.type = "enum"

\* C23: the tag a derived enum writes is one 8-byte word whose value, read as
\* the decoder reads it, is the ordinal of the variant, and decoding the
\* encoding returns the value, for every variant.
C23_EnumRoundTrip ==
    /\ Encoded /\ EnumValue =>
          /\ canon_out.result.ok
          /\ Len(canon_out.result.val) >= WORD_SIZE
          /\ be_value(Sub(canon_out.result.val, 0, WORD_SIZE)) = canon_in.x.ordinal
    /\ RoundTripped /\ EnumValue =>
          /\ canon_out.result.ok
          /\ canon_out.result.val.v = canon_in.x
          /\ canon_out.result.val.off = Len(canon_out.bytes)

\* what happens instead: the variant of ordinal 0 comes back, any other is
\* refused as an unknown discriminant
C23_FirstVariantOnly ==
    RoundTripped /\ EnumValue =>
        IF canon_in.x.ordinal = 0
          THEN canon_out.result.ok /\ canon_out.result.val.v = canon_in.x
          ELSE canon_out.result = UnknownDiscriminant

\* Output::Contract, ordinal 1: the tag bytes are 1, 0, 0, 0, 0, 0, 0, 0
C23_SecondVariantRefused ==
    /\ RoundTripped /\ EnumValue
    /\ canon_in.x.variants = T_Output.variants
    /\ canon_in.x.ordinal = 1
    /\ Sub(canon_out.bytes, 0, WORD_SIZE) = <<1, 0, 0, 0, 0, 0, 0, 0>>
    /\ canon_out.result = UnknownDiscriminant

\* --------------------------------------------------- canonical encoding

\* the bytes the decoder consumed
ConsumedPrefix == Sub(canon_out.bytes, 0, canon_out.consumed)

\* C24: whenever bytes decode to a value, encoding the value gives back the
\* bytes the decoder consumed; bytes with a non-zero padding byte are not
\* accepted.
C24_Canonical ==
    Reencoded => canon_out.result = Ok(ConsumedPrefix)

\* the decoders never look at the padding: whatever the padding bytes are,
\* the value is that of the same bytes with the padding zeroed
C24_PaddingUnread ==
    DecodedRaw /\ canon_in.ty \in {T_prim("u8"), T_prim("u16"), T_prim("u32"), T_bytes(4)}
               /\ Len(canon_in.buf) >= WORD_SIZE =>
        LET n == IF canon_in.ty.type = "bytes" THEN canon_in.ty.n ELSE size_of(canon_in.ty.type)
        IN  /\ canon_out.result.ok
            /\ canon_out.result.val.off = WORD_SIZE
            /\ canon_out.result
                   = decode(canon_in.ty, Sub(canon_in.buf, 0, n) \o Zeroes(WORD_SIZE - n))

\* 05 00 00 00 00 00 00 01 is accepted as the u8 5, which encodes differently
C24_PaddingAccepted ==
    /\ Reencoded
    /\ canon_in.ty = T_prim("u8")
    /\ canon_in.buf = <<5, 0, 0, 0, 0, 0, 0, 1>>
    /\ canon_out.value = U8(5)
    /\ canon_out.result = Ok(<<5, 0, 0, 0, 0, 0, 0, 0>>)

\* a Vec<u8> of 3 bytes followed by the padding 04 00 00 09 00 is accepted
C24_VecPaddingAccepted ==
    /\ Reencoded
    /\ canon_in.ty = T_vec(T_prim("u8"))
    /\ canon_in.buf = <<0, 0, 0, 0, 0, 0, 0, 3>> \o <<1, 2, 3, 4, 0, 0, 9, 0>>
    /\ canon_out.value = VecU8(3)
    /\ canon_out.consumed = 2 * WORD_SIZE
    /\ canon_out.result.val # canon_in.buf

\* bytes whose padding is zero are reproduced
C24_ZeroPaddingReproduced ==
    /\ Reencoded
    /\ canon_in.ty = T_prim("u16")
    /\ canon_in.buf = <<1, 0, 0, 0, 0, 0, 0, 0>>
    /\ canon_out.result = Ok(canon_in.buf)

\* ------------------------------------------------ duplicate-finder properties

DupCalled == dup_out # Idle

\* the values that occur at least twice
Duplicated ==
    { dup_in[i] : i \in { j \in 1..Len(dup_in) : \E k \in 1..Len(dup_in) : k # j /\ dup_in[k] = dup_in[j] } }

SmallestDuplicated == CHOOSE v \in Duplicated : \A w \in Duplicated : v <= w

\* C25: next_duplicate returns None iff all elements are distinct, and
\* otherwise the smallest value that occurs at least twice, whatever the order
\* of the elements and in either build.
C25_SmallestDuplicate ==
    DupCalled =>
        IF Duplicated = {} THEN dup_out.result = None
        ELSE dup_out.result = Some(SmallestDuplicated)

\* both builds agree on whether there is a duplicate, and return one
C25_SomeDuplicate ==
    DupCalled =>
        IF Duplicated = {} THEN dup_out.result = None
        ELSE dup_out.result.some /\ dup_out.result.v \in Duplicated

\* the build without std returns the smallest duplicated value
C25_NoStdSmallest ==
    DupCalled /\ ~dup_out.std /\ Duplicated # {} =>
        dup_out.result = Some(SmallestDuplicated)

\* the std build on 3, 1, 3, 1 returns 3, the first value met a second time
C25_StdFirstRepeated ==
    /\ DupCalled
    /\ dup_out.std
    /\ dup_in = <<3, 1, 3, 1>>
    /\ dup_out.result = Some(3)

\* ------------------------------------------- contract inputs and outputs

\* positions (from 1) of the contract inputs, and of the Contract outputs that
\* name the input at position i
ContractInputs == {i \in 1..Len(tx.inputs) : tx.inputs[i].variant = "Contract"}
ContractOutputsOf(i) ==
    {j \in 1..Len(tx.outputs) :
        tx.outputs[j].variant = "Contract" /\ tx.outputs[j].input_index = i - 1}

\* no id is carried twice: utxo ids among the coins, contract ids, message ids
DistinctIds ==
    \A i, j \in 1..Len(tx.inputs) :
        i < j =>
            /\ ~(Input_is_coin(tx.inputs[i]) /\ Input_is_coin(tx.inputs[j])
                   /\ tx.inputs[i].utxo_id = tx.inputs[j].utxo_id)
            /\ ~(tx.inputs[i].variant = "Contract" /\ tx.inputs[j].variant = "Contract"
                   /\ tx.inputs[i].contract_id = tx.inputs[j].contract_id)
            /\ ~(Input_is_message(tx.inputs[i]) /\ Input_is_message(tx.inputs[j])
                   /\ tx.inputs[i].message_id = tx.inputs[j].message_id)

\* the rules applied before the input at position i is looked at all pass
RulesBeforeInput(i) ==
    /\ EarlierRulesPass
    /\ DistinctIds
    /\ \A k \in 1..(i - 1) :
          Input_validate_without_signature(tx.inputs[k], k - 1, tx.outputs,
                                           tx.witnesses, CodecParams).ok

\* C26: a Script that passes validate_without_signature has, for every
\* contract input, exactly one Contract output naming it, and every Contract
\* output names a contract input; a contract input with no or with several
\* such outputs makes validation fail, with
\* InputContractAssociatedOutputContract{index} once the rules before it pass.
C26_ContractCorrespondence ==
    (ValidatedTx /\ tx.variant = "Script") =>
        /\ validated.result.ok =>
              /\ \A i \in ContractInputs : Cardinality(ContractOutputsOf(i)) = 1
              /\ \A j \in 1..Len(tx.outputs) :
                    tx.outputs[j].variant = "Contract" =>
                        tx.outputs[j].input_index + 1 \in ContractInputs
        /\ \A i \in ContractInputs :
              Cardinality(ContractOutputsOf(i)) # 1 =>
                  /\ ~validated.result.ok
                  /\ RulesBeforeInput(i) =>
                        validated.result
                            = VErrIndex("InputContractAssociatedOutputContract", i - 1)

\* two contract inputs, each named by one Contract output: accepted
C26_Witness ==
    /\ ValidatedTx /\ tx.variant = "Script"
    /\ Cardinality(ContractInputs) = 2
    /\ \A i \in ContractInputs : Cardinality(ContractOutputsOf(i)) = 1
    /\ validated.result.ok

\* a contract input named by two Contract outputs: rejected
C26_WitnessTwoOutputs ==
    /\ ValidatedTx /\ tx.variant = "Script"
    /\ 1 \in ContractInputs
    /\ Cardinality(ContractOutputsOf(1)) = 2
    /\ validated.result = VErrIndex("InputContractAssociatedOutputContract", 0)

\* the second input is a contract input with no Contract output
C26_WitnessNoOutput ==
    /\ ValidatedTx /\ tx.variant = "Script"
    /\ ContractInputs = {2}
    /\ ContractOutputsOf(2) = {}
    /\ validated.result = VErrIndex("InputContractAssociatedOutputContract", 1)

\* ------------------------------------------------------- change outputs

\* the asset ids of the inputs: that of a coin, the base asset for a message
InputAssets ==
    { Input_asset_id(tx.inputs[i]).v :
        i \in { k \in 1..Len(tx.inputs) : Input_asset_id(tx.inputs[k]).some } }

ChangeOutputs == {j \in 1..Len(tx.outputs) : tx.outputs[j].variant = "Change"}
ChangeOutputsOf(asset_id) == {j \in ChangeOutputs : tx.outputs[j].asset_id = asset_id}

\* an output passes the rules of the outputs loop
OutputPasses(j) ==
    /\ Output_validate(tx.outputs[j], j - 1, tx.inputs).ok
    /\ tx.outputs[j].variant \in {"Change", "Coin"} => tx.outputs[j].asset_id \in InputAssets

\* the rules applied before the output at position j is looked at all pass
RulesBeforeOutput(j) ==
    /\ RulesBeforeInput(Len(tx.inputs) + 1)
    /\ \A k \in 1..(j - 1) : OutputPasses(k)

\* the limits and the maturity, the rules before the change outputs are counted
LimitsPass ==
    /\ tx.gas_limit <= CodecParams.max_gas_per_tx
    /\ CodecBlockHeight >= tx.maturity
    /\ Len(tx.inputs) <= CodecParams.max_inputs
    /\ Len(tx.outputs) <= CodecParams.max_outputs
    /\ Len(tx.witnesses) <= CodecParams.max_witnesses

\* C27: a Script or Create that passes validate_without_signature has at most
\* one Change output per asset id, each of an asset id of some input; two
\* Change outputs of one asset id are always rejected: with
\* TransactionOutputChangeAssetIdDuplicated when the asset is among the inputs,
\* with TransactionOutputChangeAssetIdNotFound otherwise (each once the rules
\* applied before it pass).
C27_ChangePerAsset ==
    ValidatedTx =>
        /\ validated.result.ok =>
              \A j \in ChangeOutputs :
                  /\ ChangeOutputsOf(tx.outputs[j].asset_id) = {j}
                  /\ tx.outputs[j].asset_id \in InputAssets
        /\ \A j \in ChangeOutputs :
              Cardinality(ChangeOutputsOf(tx.outputs[j].asset_id)) > 1 =>
                  /\ ~validated.result.ok
                  /\ (tx.outputs[j].asset_id \in InputAssets /\ LimitsPass) =>
                        validated.result = VErr("TransactionOutputChangeAssetIdDuplicated")
                  /\ (/\ tx.outputs[j].asset_id \notin InputAssets
                      /\ \A k \in ChangeOutputsOf(tx.outputs[j].asset_id) : j <= k
                      /\ RulesBeforeOutput(j)) =>
                        validated.result
                            = VErrId("TransactionOutputChangeAssetIdNotFound",
                                     tx.outputs[j].asset_id)

\* one Change output for each of two input assets: accepted
C27_Witness ==
    /\ ValidatedTx /\ tx.variant = "Script"
    /\ Cardinality(ChangeOutputs) = 2
    /\ validated.result.ok

\* two Change outputs of an input asset, the base asset of a message input
C27_WitnessDuplicated ==
    /\ ValidatedTx
    /\ Len(tx.inputs) = 1 /\ Input_is_message(tx.inputs[1])
    /\ Cardinality(ChangeOutputsOf(AssetId_BASE)) = 2
    /\ validated.result = VErr("TransactionOutputChangeAssetIdDuplicated")

\* two Change outputs of an asset no input carries
C27_WitnessNotFound ==
    /\ ValidatedTx
    /\ AssetA \notin InputAssets
    /\ Cardinality(ChangeOutputsOf(AssetA)) = 2
    /\ validated.result = VErrId("TransactionOutputChangeAssetIdNotFound", AssetA)

\* a Create with two Change outputs of the base asset
C27_WitnessCreate ==
    /\ ValidatedTx /\ tx.variant = "Create"
    /\ Cardinality(ChangeOutputsOf(AssetId_BASE)) = 2
    /\ ~validated.result.ok

\* ------------------------------------------- summation of the coin inputs

\* the coin inputs of some asset add up to more than Word::MAX
SumExceedsWord == \E a \in CoinInputAssets : TrueCoinInputs(a) > WORD_MAX

\* C28: the summation of the coin inputs per asset never wraps: when the coin
\* inputs of one asset add up to more than Word::MAX, check of an otherwise
\* valid transaction reports the ArithmeticOverflow error, and no successful
\* check records a free balance beyond the true sum of the asset's inputs.
C28_SumNeverWraps ==
    CheckCalled =>
        /\ (Validated.ok /\ SumExceedsWord) => checked = VErr("ArithmeticOverflow")
        /\ checked.ok =>
              \A a \in CoinInputAssets :
                  checked.val.initial_free_balances[a]
                      = TrueCoinInputs(a) - FeeShare(a, checked.val.max_fee)
                            - TrueCoinOutputs(a)

\* what the code does with such a sum: it panics on the addition, or goes on
\* with the sum modulo 2^64; it never reports it as an error of the sum
C28_PanicsOrWraps ==
    (CheckCalled /\ Validated.ok /\ SumExceedsWord) =>
        \/ checked = Panic("attempt to add with overflow")
        \/ /\ ~IsPanic(checked)
           /\ checked.ok =>
                 \E a \in CoinInputAssets :
                     /\ TrueCoinInputs(a) > WORD_MAX
                     /\ checked.val.initial_free_balances[a]
                          = (TrueCoinInputs(a) % (WORD_MAX + 1))
                              - FeeShare(a, checked.val.max_fee) - TrueCoinOutputs(a)

\* a check that succeeded on a wrapped sum
C28_WitnessWrapped ==
    /\ CheckCalled /\ Validated.ok /\ SumExceedsWord
    /\ checked.ok
    /\ \E a \in CoinInputAssets :
          /\ TrueCoinInputs(a) > WORD_MAX
          /\ checked.val.initial_free_balances[a] < WORD_MAX

\* a check that panicked on the addition
C28_WitnessPanic ==
    /\ CheckCalled /\ Validated.ok /\ SumExceedsWord
    /\ checked = Panic("attempt to add with overflow")

\* ------------------------------------------------------ builder properties

BuildParams == Params(1)

\* the rule of validation on the bytecode of a Create: the witness designated
\* exists, is no longer than contract_max_size and has bytecode_length words
BytecodeRuleHolds ==
    /\ tx.bytecode_witness_index < Len(tx.witnesses)
    /\ Len(tx.witnesses[tx.bytecode_witness_index + 1]) <= BuildParams.contract_max_size
    /\ Len(tx.witnesses[tx.bytecode_witness_index + 1]) \div 4 = tx.bytecode_length

BytecodeSet == built.op = "set_bytecode" /\ built.ok
InputAdded == built.op \in {"add_unsigned_coin_input", "add_unsigned_message_input"}
\* the number of witnesses before the last call, which appended one
WitnessesBefore == Len(tx.witnesses) - 1
LastInput == tx.inputs[Len(tx.inputs)]

\* C29: after set_bytecode(b) on a Create holding any number of witnesses,
\* witnesses[bytecode_witness_index] is b and bytecode_length is len(b) / 4, so
\* the bytecode-length rule holds; after add_unsigned_coin_input or
\* add_unsigned_message_input the witness_index of the new input designates the
\* empty witness the call appended.
C29_BuilderIndices ==
    /\ BytecodeSet =>
          /\ tx.bytecode_witness_index = WitnessesBefore
          /\ tx.witnesses[tx.bytecode_witness_index + 1] = built.bytecode
          /\ tx.bytecode_length = Len(built.bytecode) \div 4
          /\ BytecodeRuleHolds
    /\ InputAdded =>
          /\ LastInput.witness_index = WitnessesBefore
          /\ tx.witnesses[LastInput.witness_index + 1] = Witness_default

\* the same with fewer than 256 witnesses before the call
C29_BelowU8 ==
    WitnessesBefore < 256 =>
        /\ BytecodeSet =>
              /\ tx.bytecode_witness_index = WitnessesBefore
              /\ tx.witnesses[tx.bytecode_witness_index + 1] = built.bytecode
              /\ tx.bytecode_length = Len(built.bytecode) \div 4
              /\ BytecodeRuleHolds
        /\ InputAdded =>
              /\ LastInput.witness_index = WitnessesBefore
              /\ tx.witnesses[LastInput.witness_index + 1] = Witness_default

\* the index stored is the number of witnesses modulo 256
C29_IndexTruncated ==
    /\ BytecodeSet => tx.bytecode_witness_index = WitnessesBefore % 256
    /\ InputAdded => LastInput.witness_index = WitnessesBefore % 256

\* set_bytecode on a Create of 256 witnesses: the index designates the first
\* witness, whose length breaks the rule
C29_WitnessBytecode ==
    /\ BytecodeSet /\ WitnessesBefore = 256
    /\ tx.bytecode_witness_index = 0
    /\ tx.witnesses[1] # built.bytecode
    /\ ~BytecodeRuleHolds

\* an input added to a transaction of 257 witnesses designates the second,
\* which is not empty
C29_WitnessInput ==
    /\ InputAdded /\ WitnessesBefore = 257
    /\ LastInput.witness_index = 1
    /\ tx.witnesses[2] # Witness_default

\* the calls on a transaction of 255 witnesses
C29_WitnessLastFitting ==
    /\ BytecodeSet /\ WitnessesBefore = 255
    /\ tx.bytecode_witness_index = 255
    /\ BytecodeRuleHolds

\* ---------------------------------------------- serialized-size properties

SerializeCalled == wire # Idle

\* C30: serialized_size() is the exact length of the wire encoding, the
\* variant word included: serializing into a buffer of exactly
\* serialized_size() bytes succeeds, a buffer a byte shorter fails with an
\* end-of-buffer error, and serialization and deserialization both report
\* serialized_size() bytes.
C30_SerializedSize ==
    SerializeCalled =>
        /\ read_len = Transaction_serialized_size(tx) =>
              (wire.ok /\ wire.val.n = Transaction_serialized_size(tx))
        /\ read_len = Transaction_serialized_size(tx) - 1 => wire = Eof
        /\ wire.ok => wire.val.n = Transaction_serialized_size(tx)
        /\ (Decoded /\ decoded.ok) => decoded.val.n = Transaction_serialized_size(tx)

\* what the code does: serialized_size() counts the body of the Script or
\* Create without the variant word, so the buffer has to be a word longer; the
\* counts reported are those of the body
C30_BodySize ==
    SerializeCalled =>
        /\ wire.ok <=> read_len >= Transaction_serialized_size(tx) + WORD_SIZE
        /\ ~wire.ok => wire = Eof
        /\ wire.ok => wire.val.n = Transaction_serialized_size(tx)
        /\ wire.ok => wire.val.n = Len(wire.val.buf) - (read_len - Transaction_serialized_size(tx))
        /\ (Decoded /\ decoded.ok) => decoded.val.n = Transaction_serialized_size(tx)

\* a buffer of exactly serialized_size() bytes is refused
C30_WitnessExact ==
    /\ SerializeCalled
    /\ read_len = Transaction_serialized_size(tx)
    /\ wire = Eof

\* a buffer a word longer takes the encoding, and decodes
C30_WitnessWordLonger ==
    /\ SerializeCalled /\ Decoded
    /\ read_len = Transaction_serialized_size(tx) + WORD_SIZE
    /\ wire.ok /\ decoded.ok
    /\ decoded.val.n = Len(wire.val.buf) - WORD_SIZE

====
